---- MODULE Spec2Model ----
(***************************************************************************)
(* Model of the API test runners of the repository: backend_test.py,       *)
(* vercel_deployment_test.py, dashboard_integration_test.py,               *)
(* final_deployment_test_report.py and blog_endpoint_validation_test.py.   *)
(* A run is one script executed from construction of its tester object to  *)
(* the process exit.  Each action is one step of a test function: the HTTP *)
(* request it sends, the server's answer (chosen by the environment), the  *)
(* Python that inspects the answer and the log_test call that records it.  *)
(* Timestamps and console output are not state of the model.               *)
(***************************************************************************)
EXTENDS Integers, Sequences, FiniteSets, TLC

\* runner     the script that runs
\* pc         the statement the script is at
\* self       the tester object; its field calls is a history field, not a
\*            field of the Python object: the number of log_test / log_result
\*            calls made so far
\* loc        the local variables that live across statements
\* wire       what crossed the network: counts of the requests sent through
\*            make_request (sent) and with requests directly (direct), the log
\*            of all requests, and the last request, answer and return value
\* faults     the number of deviating answers so far
\* exit_code  the process exit status, -1 while the process runs
VARIABLES runner, pc, self, loc, wire, faults, exit_code

vars == <<runner, pc, self, loc, wire, faults, exit_code>>

\* The number of events per run that deviate from the run the script expects:
\* an answer of the server other than the expected one, or the user's interrupt.
MaxFaults == 1

(***************************************************************************)
(* Python values.  Every value is a record with a tag t.                   *)
(***************************************************************************)
None == [t |-> "null"]
JStr(s) == [t |-> "str", s |-> s]
JBool(b) == [t |-> "bool", b |-> b]
JInt(n) == [t |-> "int", n |-> n]
JList(items) == [t |-> "list", items |-> items]
JDict(m) == [t |-> "dict", m |-> m]
EmptyDict == JDict(<<>>)

Ok(v) == [ok |-> TRUE, val |-> v, exc |-> "none"]
Raise(e) == [ok |-> FALSE, val |-> None, exc |-> e]

\* bool(v)
Truthy(v) ==
  CASE v.t = "null" -> FALSE
    [] v.t = "str" -> v.s /= ""
    [] v.t = "bool" -> v.b
    [] v.t = "int" -> v.n /= 0
    [] v.t = "list" -> v.items /= <<>>
    [] v.t = "dict" -> DOMAIN v.m /= {}

\* Python's substring test on the strings the server bodies and the node
\* subprocess use.
IsSubstring(k, s) ==
  \/ k = s
  \/ <<k, s>> \in {<<"token", "no token here">>,
                   <<"501", "CRITICAL: 501 Not Implemented error still occurring!">>,
                   <<"Not Implemented",
                     "CRITICAL: 501 Not Implemented error still occurring!">>,
                   <<"Not Implemented", "Error: Not Implemented">>}

\* s.lower() on the strings the server bodies use.
Lower(s) ==
  CASE s = "Rome" -> "rome"
    [] s = "Villa" -> "villa"
    [] s = "Cabin" -> "cabin"
    [] s = "Oslo" -> "oslo"
    [] OTHER -> s

\* key in v
PyIn(key, v) ==
  CASE v.t = "dict" -> Ok(key \in DOMAIN v.m)
    [] v.t = "list" -> Ok(\E i \in DOMAIN v.items :
                            v.items[i].t = "str" /\ v.items[i].s = key)
    [] v.t = "str" -> Ok(IsSubstring(key, v.s))
    [] OTHER -> Raise("TypeError")

\* v[key] for a string key
PyGetItem(v, key) ==
  CASE v.t = "dict" -> IF key \in DOMAIN v.m THEN Ok(v.m[key]) ELSE Raise("KeyError")
    [] OTHER -> Raise("TypeError")

\* v.get(key) and v.get(key, default)
PyGetDefault(v, key, default) ==
  CASE v.t = "dict" -> Ok(IF key \in DOMAIN v.m THEN v.m[key] ELSE default)
    [] OTHER -> Raise("AttributeError")

PyGet(v, key) == PyGetDefault(v, key, None)

\* len(v) > 0
PyLenPositive(v) ==
  CASE v.t = "list" -> Ok(v.items /= <<>>)
    [] v.t = "dict" -> Ok(DOMAIN v.m /= {})
    [] v.t = "str" -> Ok(v.s /= "")
    [] OTHER -> Raise("TypeError")

\* v[0]; the first character of a string is a one-character string.
PyFirst(v) ==
  CASE v.t = "list" -> IF v.items = <<>> THEN Raise("IndexError") ELSE Ok(v.items[1])
    [] v.t = "str" -> IF v.s = "" THEN Raise("IndexError") ELSE Ok(JStr("c"))
    [] v.t = "dict" -> Raise("KeyError")
    [] OTHER -> Raise("TypeError")

\* v == True
IsTrue(v) == v.t = "bool" /\ v.b

(***************************************************************************)
(* The server under test: what one HTTP exchange can produce.              *)
(***************************************************************************)
Statuses == {200, 201, 401, 404, 501}

TransportErrors == {"Connection refused", "Read timed out"}

\* The body a healthy server sends: every field a script looks for.
GoodBody ==
  JDict([success |-> JBool(TRUE),
         message |-> JStr("API is healthy"),
         data |-> JDict([token |-> JStr("tok"),
                         refreshToken |-> JStr("ref"),
                         id |-> JStr("p1"),
                         properties |-> JList(<<JDict([id |-> JStr("p1")])>>),
                         activity |-> JDict([properties |->
                           JList(<<JDict([title |-> JStr("Villa"),
                                          city |-> JStr("Rome")])>>)]),
                         items |-> JList(<<JDict([title |-> JStr("Villa"),
                                                  city |-> JStr("Rome")])>>)])])

JsonBodies ==
  { GoodBody,
    EmptyDict,
    None,
    JList(<<>>),
    JDict([success |-> JBool(FALSE), error |-> JStr("bad")]),
    JDict([success |-> JBool(TRUE), data |-> None]),
    JDict([success |-> JBool(TRUE), data |-> JList(<<JStr("token")>>)]),
    JDict([success |-> JBool(TRUE), data |-> JStr("no token here")]),
    JDict([success |-> JBool(TRUE), data |-> EmptyDict]),
    JDict([success |-> JBool(TRUE), data |-> JDict([token |-> None])]),
    JDict([success |-> JBool(TRUE), data |-> JDict([token |-> JStr("")])]),
    JDict([success |-> JBool(TRUE), data |-> JDict([token |-> JStr("tok")])]),
    JDict([data |-> JDict([token |-> JStr("tok2"), refreshToken |-> JStr("ref")])]),
    JDict([success |-> JBool(TRUE), data |-> JDict([properties |-> JList(<<>>)])]),
    JDict([success |-> JBool(TRUE), data |-> JDict([properties |-> JList(<<None>>)])]),
    JDict([success |-> JBool(TRUE),
           data |-> JDict([activity |-> JDict([properties |->
                      JList(<<JDict([title |-> JStr("Cabin"), city |-> None])>>)]),
                           items |-> JList(<<JDict([title |-> JStr("Cabin"),
                                                    city |-> JStr("Oslo")])>>)])]) }

Http(status, valid, val, text) ==
  [kind |-> "http", status |-> status, valid |-> valid, val |-> val, text |-> text]

\* A transport failure: requests raises a RequestException, there is no response.
Failure(msg) ==
  [kind |-> "error", status |-> 0, valid |-> FALSE, val |-> None, text |-> msg]

NoResponse == [kind |-> "none", status |-> 0, valid |-> FALSE, val |-> None, text |-> ""]

HttpResponses ==
  {Http(s, TRUE, b, "") : s \in Statuses, b \in JsonBodies}
    \cup {Http(s, FALSE, None, txt) : s \in Statuses, txt \in {"<html>", ""}}

AllResponses == HttpResponses \cup {Failure(m) : m \in TransportErrors}

\* A response during whose response.json() the user's interrupt arrives: the
\* call raises KeyboardInterrupt instead of returning the parsed body.
SigInt == [t |-> "sigint"]

InterruptedResponses == {Http(s, FALSE, SigInt, "{}") : s \in Statuses}

\* The answer to a CORS preflight (requests.options): its status and its
\* Access-Control-Allow-Origin header (None when absent), or a failure.
Preflight(status, origin) == Http(status, FALSE, origin, "")

GoodPreflight == Preflight(204, JStr("*"))

PreflightResponses ==
  {Preflight(s, o) : s \in {200, 204, 404}, o \in {None, JStr("*")}}
    \cup {Failure(m) : m \in TransportErrors}

\* The answer the server gave in the first run to the request at the position
\* of the one being sent now (the expected answer past the first run's end).
Replayed(nominal) ==
  IF Len(wire.log) < Len(wire.answers)
    THEN wire.answers[Len(wire.log) + 1] ELSE nominal

PreflightAnswers ==
  IF wire.run = 2 THEN {Replayed(GoodPreflight)}
  ELSE IF faults < MaxFaults THEN PreflightResponses ELSE {GoodPreflight}

\* The answer a healthy server gives to a request that expects `status`.
Good(status) == Http(status, TRUE, GoodBody, "")

\* The answers the environment may give to a request whose expected answer is
\* nominal: the nominal one, or any other while deviations remain.
\* The answers of the server in a run that is to be repeated: one of each kind
\* the scripts tell apart.
TwiceResponses ==
  { Good(200), Good(401), Http(501, TRUE, EmptyDict, ""),
    Http(200, TRUE, JDict([success |-> JBool(TRUE), data |-> None]), ""),
    Http(200, TRUE, JDict([success |-> JBool(TRUE), data |-> EmptyDict]), ""),
    Http(200, FALSE, None, "<html>"),
    Failure("Connection refused") }

Answers(nominal) ==
  IF wire.run = 2 THEN {Replayed(nominal)}
  ELSE IF faults >= MaxFaults THEN {nominal}
  ELSE IF wire.run = 1 THEN TwiceResponses \cup {nominal}
  ELSE AllResponses
         \cup (IF runner \in {"backend", "vercel"} THEN InterruptedResponses ELSE {})

Charge(nominal, r) == IF r = nominal THEN faults ELSE faults + 1

(***************************************************************************)
(* Requests as they leave the process.                                     *)
(***************************************************************************)
\* An endpoint argument: a path under api_base, or an absolute URL under
\* base_url, possibly ending in a resource id.
NoEndpoint == [abs |-> FALSE, path |-> "", id |-> None]
Ep(path) == [NoEndpoint EXCEPT !.path = path]
Abs(path) == [NoEndpoint EXCEPT !.abs = TRUE, !.path = path]
EpId(path, id) == [NoEndpoint EXCEPT !.path = path, !.id = id]

NoHeader == [t |-> "absent"]
Bearer(token) == [t |-> "bearer", token |-> token]

NoRequest ==
  [via |-> "none", method |-> "", url |-> Ep(""), content_type |-> NoHeader,
   authorization |-> NoHeader, expected |-> 0, use_auth |-> FALSE]

NoReturn == [success |-> FALSE, data |-> None]

\* A details string: fixed text, and the value formatted into it (if any).
NoArg == [t |-> "none"]
Detail(text, arg) == [text |-> text, arg |-> arg]
NoDetail == Detail("", NoArg)

Methods == {"GET", "POST", "PUT", "DELETE"}

(***************************************************************************)
(* backend_test.py: ItalianRealEstateAPITester                             *)
(***************************************************************************)
\* __init__
Backend_init ==
  [token |-> None, refresh_token |-> None, tests_run |-> 0, tests_passed |-> 0,
   test_results |-> <<>>, calls |-> 0]

\* log_test without line 25: the result is recorded, the run counter is not.
log_test_NoCount(s, name, success, details) ==
  [s EXCEPT !.calls = @ + 1,
            !.tests_passed = IF Truthy(success) THEN @ + 1 ELSE @,
            !.test_results = Append(@, [name |-> name, success |-> success,
                                         details |-> details])]

\* log_test with line 25 moved into the else branch of line 26.
log_test_RunOnFail(s, name, success, details) ==
  [s EXCEPT !.calls = @ + 1,
            !.tests_run = IF Truthy(success) THEN @ ELSE @ + 1,
            !.tests_passed = IF Truthy(success) THEN @ + 1 ELSE @,
            !.test_results = Append(@, [name |-> name, success |-> success,
                                         details |-> details])]

\* log_test with line 29 replaced by self.test_results.insert(0, ...).
log_test_Prepend(s, name, success, details) ==
  [s EXCEPT !.calls = @ + 1, !.tests_run = @ + 1,
            !.tests_passed = IF Truthy(success) THEN @ + 1 ELSE @,
            !.test_results = <<[name |-> name, success |-> success,
                                details |-> details]>> \o @]

\* log_test(name, success, details)
log_test(s, name, success, details) ==
  [s EXCEPT !.calls = @ + 1, !.tests_run = @ + 1,
            !.tests_passed = IF Truthy(success) THEN @ + 1 ELSE @,
            !.test_results = Append(@, [name |-> name, success |-> success,
                                         details |-> details])]

\* Headers with line 45 reduced to `if self.token`.
Headers_TokenOnly(s, use_auth) ==
  [content_type |-> JStr("application/json"),
   authorization |-> IF Truthy(s.token) THEN Bearer(s.token) ELSE NoHeader]

\* The headers make_request builds.
Headers(s, use_auth) ==
  [content_type |-> JStr("application/json"),
   authorization |-> IF use_auth /\ Truthy(s.token) THEN Bearer(s.token) ELSE NoHeader]

\* The request make_request sends for its arguments.
Request(s, method, endpoint, expected_status, use_auth) ==
  [via |-> "make_request", method |-> method, url |-> endpoint,
   content_type |-> Headers(s, use_auth).content_type,
   authorization |-> Headers(s, use_auth).authorization,
   expected |-> expected_status, use_auth |-> use_auth]

\* response.json() with the fallback of the bare except.
ResponseData(r) ==
  IF r.valid THEN r.val
  ELSE JDict([text |-> JStr(r.text), status_code |-> JInt(r.status)])

\* make_request with line 60 replaced by `success = response.ok`.
make_request_StatusOk(s, method, endpoint, expected_status, use_auth, r) ==
  IF method \notin Methods
    THEN [success |-> FALSE, data |-> JDict([error |-> JStr("Unsupported method")])]
  ELSE IF r.kind = "error"
    THEN [success |-> FALSE, data |-> JDict([error |-> JStr(r.text)])]
  ELSE [success |-> r.status < 400, data |-> ResponseData(r)]

\* make_request(method, endpoint, data, expected_status, use_auth), given the
\* outcome r of the HTTP exchange: the returned (success, response_data).
make_request(s, method, endpoint, expected_status, use_auth, r) ==
  IF method \notin Methods
    THEN [success |-> FALSE, data |-> JDict([error |-> JStr("Unsupported method")])]
  ELSE IF r.kind = "error"
    THEN [success |-> FALSE, data |-> JDict([error |-> JStr(r.text)])]
  ELSE [success |-> r.status = expected_status, data |-> ResponseData(r)]

\* Sent with a request going out whatever the method is.
Sent_AnyMethod(req, r, ret) ==
  [wire EXCEPT !.sent = @ + 1, !.log = Append(@, req),
               !.req = req, !.resp = r, !.ret = ret,
               !.answers = IF wire.run = 1 THEN Append(@, r) ELSE @]

\* The wire after make_request: the request sent, the answer, the return value.
Sent(req, r, ret) ==
  IF req.method \in Methods
    THEN [wire EXCEPT !.sent = @ + 1, !.log = Append(@, req),
                      !.req = req, !.resp = r, !.ret = ret,
                      !.answers = IF wire.run = 1 THEN Append(@, r) ELSE @]
    ELSE [wire EXCEPT !.req = NoRequest, !.resp = NoResponse, !.ret = ret]

\* BackendCheck with the check issued again whenever it failed.
BackendCheck_Retry(at, next, method, endpoint, expected_status, use_auth, name) ==
  /\ runner = "backend" /\ pc = at
  /\ \E r \in Answers(Good(expected_status)) :
       LET ret == make_request(self, method, endpoint, expected_status, use_auth, r)
       IN /\ self' = log_test(self, name, JBool(ret.success), NoDetail)
          /\ wire' = Sent(Request(self, method, endpoint, expected_status, use_auth),
                          r, ret)
          /\ loc' = [loc EXCEPT !.success = ret.success]
          /\ faults' = Charge(Good(expected_status), r)
          /\ pc' = IF ret.success THEN next ELSE at
  /\ UNCHANGED <<runner, exit_code>>

\* BackendCheck with the token dropped when an authenticated check fails.
BackendCheck_ClearToken(at, next, method, endpoint, expected_status, use_auth, name) ==
  /\ runner = "backend" /\ pc = at
  /\ \E r \in Answers(Good(expected_status)) :
       LET ret == make_request(self, method, endpoint, expected_status, use_auth, r)
           s1 == log_test(self, name, JBool(ret.success), NoDetail)
       IN /\ self' = IF use_auth /\ ~ret.success THEN [s1 EXCEPT !.token = None] ELSE s1
          /\ wire' = Sent(Request(self, method, endpoint, expected_status, use_auth),
                          r, ret)
          /\ loc' = [loc EXCEPT !.success = ret.success]
          /\ faults' = Charge(Good(expected_status), r)
  /\ pc' = next
  /\ UNCHANGED <<runner, exit_code>>

\* success, _ = self.make_request(...); self.log_test(name, success)
BackendCheck(at, next, method, endpoint, expected_status, use_auth, name) ==
  /\ runner = "backend" /\ pc = at
  /\ \E r \in Answers(Good(expected_status)) :
       LET ret == make_request(self, method, endpoint, expected_status, use_auth, r)
       IN /\ self' = log_test(self, name, JBool(ret.success), NoDetail)
          /\ wire' = Sent(Request(self, method, endpoint, expected_status, use_auth),
                          r, ret)
          /\ loc' = [loc EXCEPT !.success = ret.success]
          /\ faults' = Charge(Good(expected_status), r)
  /\ pc' = next
  /\ UNCHANGED <<runner, exit_code>>

test_health_endpoints ==
  \/ BackendCheck("health_root", "health_api", "GET", Abs("/health"), 200, FALSE,
                  "Root Health Check (/health)")
  \/ BackendCheck("health_api", "health_slash", "GET", Ep("health"), 200, FALSE,
                  "API Health Check (/api/health)")
  \/ BackendCheck("health_slash", "docs", "GET", Abs("/"), 200, FALSE,
                  "Root Endpoint (/)")

test_swagger_docs ==
  BackendCheck("docs", "auth_login", "GET", Ep("docs"), 200, FALSE,
               "Swagger Documentation (/api/docs)")

\* A step's outcome: the tester object after it, and the exception it raised.
Done(s) == [s |-> s, exc |-> "none"]
Raised(s, e) == [s |-> s, exc |-> e]

\* The exit status of a script whose main has no handler for the exception
\* that ends it: 1 after the traceback of an error, and the status of a
\* process ended by SIGINT for an interrupt.
Unhandled(exc) == IF exc = "KeyboardInterrupt" THEN 130 ELSE 1

\* Where control goes after a step: on, or out of run_all_tests with the exception.
Goto(out, next) == IF out.exc = "none" THEN next ELSE "raised"

\* Lines 111-121 of test_authentication: the token taken from the login
\* response (success, response) and the "Admin Login" result.
Backend_login(s, ret) ==
  LET failed == Done(log_test(s, "Admin Login", JBool(FALSE),
                              Detail("Login failed: ", ret.data)))
      in1 == PyIn("data", ret.data)
      data == PyGetItem(ret.data, "data")
      in2 == PyIn("token", data.val)
      tok == PyGetItem(data.val, "token")
      in3 == PyIn("refreshToken", data.val)
      s1 == [s EXCEPT !.token = tok.val]
      s2 == IF in3.val
              THEN [s1 EXCEPT !.refresh_token = PyGetItem(data.val, "refreshToken").val]
              ELSE s1
  IN IF ~ret.success THEN failed
     ELSE IF ~in1.ok THEN Raised(s, in1.exc)
     ELSE IF ~in1.val THEN failed
     ELSE IF ~data.ok THEN Raised(s, data.exc)
     ELSE IF ~in2.ok THEN Raised(s, in2.exc)
     ELSE IF ~in2.val
       THEN Done(log_test(s, "Admin Login", JBool(FALSE),
                          Detail("No token in response", NoArg)))
     ELSE IF ~tok.ok THEN Raised(s, tok.exc)
     ELSE IF ~in3.ok THEN Raised(s1, in3.exc)
     ELSE Done(log_test(s2, "Admin Login", JBool(TRUE), NoDetail))

\* The first guarded check at or after a point of test_authentication.
AfterLogin(s) ==
  IF Truthy(s.token) THEN "auth_me"
  ELSE IF Truthy(s.refresh_token) THEN "auth_refresh"
  ELSE "props_list"

AfterMe(s) == IF Truthy(s.refresh_token) THEN "auth_refresh" ELSE "props_list"

test_authentication ==
  \/ /\ runner = "backend" /\ pc = "auth_login"
     /\ \E r \in Answers(Good(200)) :
          LET ret == make_request(self, "POST", Ep("auth/login"), 200, FALSE, r)
              out == Backend_login(self, ret)
          IN /\ self' = out.s
             /\ wire' = Sent(Request(self, "POST", Ep("auth/login"), 200, FALSE), r, ret)
             /\ loc' = [loc EXCEPT !.success = ret.success, !.response = ret.data,
                                   !.exc = out.exc]
             /\ faults' = Charge(Good(200), r)
             /\ pc' = Goto(out, AfterLogin(out.s))
     /\ UNCHANGED <<runner, exit_code>>
  \/ BackendCheck("auth_me", AfterMe(self), "GET", Ep("auth/me"), 200, TRUE,
                  "Get Current User (/auth/me)")
  \/ BackendCheck("auth_refresh", "props_list", "POST", Ep("auth/refresh"), 200, FALSE,
                  "Token Refresh")

\* Lines 155-159 of test_properties_endpoints: the id of the first listed
\* property, from the success flag in scope and the list response.
Backend_property_id(success, response) ==
  LET in1 == PyIn("data", response)
      data == PyGetItem(response, "data")
      in2 == PyIn("properties", data.val)
      properties == PyGetItem(data.val, "properties")
      nonempty == PyLenPositive(properties.val)
      first == PyFirst(properties.val)
      id == PyGet(first.val, "id")
  IN IF ~success \/ ~Truthy(response) THEN Ok(None)
     ELSE IF ~in1.ok THEN in1
     ELSE IF ~in1.val THEN Ok(None)
     ELSE IF ~data.ok THEN data
     ELSE IF ~in2.ok THEN in2
     ELSE IF ~in2.val THEN Ok(None)
     ELSE IF ~properties.ok THEN properties
     ELSE IF ~Truthy(properties.val) THEN Ok(None)
     ELSE IF ~nonempty.ok THEN nonempty
     ELSE IF ~nonempty.val THEN Ok(None)
     ELSE IF ~first.ok THEN first
     ELSE id

\* Lines 192-194 with the `success and` of the condition dropped.
Backend_created_id_AnySuccess(success, create_response) ==
  LET in1 == PyIn("data", create_response)
      data == PyGetItem(create_response, "data")
  IN IF ~Truthy(create_response) THEN Ok(None)
     ELSE IF ~in1.ok THEN in1
     ELSE IF ~in1.val THEN Ok(None)
     ELSE IF ~data.ok THEN data
     ELSE PyGet(data.val, "id")

\* Lines 192-194: the id of the property just created.
Backend_created_id(success, create_response) ==
  LET in1 == PyIn("data", create_response)
      data == PyGetItem(create_response, "data")
  IN IF ~success \/ ~Truthy(create_response) THEN Ok(None)
     ELSE IF ~in1.ok THEN in1
     ELSE IF ~in1.val THEN Ok(None)
     ELSE IF ~data.ok THEN data
     ELSE PyGet(data.val, "id")

\* The first check of test_other_endpoints that runs.
OtherStart(s) == IF Truthy(s.token) THEN "other_users" ELSE "other_blog"

AfterSingle(s) == IF Truthy(s.token) THEN "props_create" ELSE OtherStart(s)

test_properties_endpoints ==
  \/ /\ runner = "backend" /\ pc = "props_list"
     /\ \E r \in Answers(Good(200)) :
          LET ret == make_request(self, "GET", Ep("properties"), 200, FALSE, r)
          IN /\ self' = log_test(self, "List Properties (Public)", JBool(ret.success),
                                 NoDetail)
             /\ wire' = Sent(Request(self, "GET", Ep("properties"), 200, FALSE), r, ret)
             /\ loc' = [loc EXCEPT !.success = ret.success, !.response = ret.data]
             /\ faults' = Charge(Good(200), r)
     /\ pc' = "props_page"
     /\ UNCHANGED <<runner, exit_code>>
  \/ BackendCheck("props_page", "props_filter", "GET", Ep("properties?page=1&limit=5"),
                  200, FALSE, "List Properties with Pagination")
  \/ BackendCheck("props_filter", "props_search", "GET", Ep("properties?status=ACTIVE"),
                  200, FALSE, "List Properties with Status Filter")
  \/ /\ runner = "backend" /\ pc = "props_search"
     /\ \E r \in Answers(Good(200)) :
          LET ret == make_request(self, "GET", Ep("properties?search=apartment"), 200,
                                  FALSE, r)
              pid == Backend_property_id(ret.success, loc.response)
          IN /\ self' = log_test(self, "Search Properties", JBool(ret.success), NoDetail)
             /\ wire' = Sent(Request(self, "GET", Ep("properties?search=apartment"),
                                     200, FALSE), r, ret)
             /\ loc' = [loc EXCEPT !.success = ret.success, !.property_id = pid.val,
                                   !.exc = pid.exc]
             /\ faults' = Charge(Good(200), r)
             /\ pc' = IF ~pid.ok THEN "raised"
                      ELSE IF Truthy(pid.val) THEN "props_single"
                      ELSE AfterSingle(self)
     /\ UNCHANGED <<runner, exit_code>>
  \/ BackendCheck("props_single", AfterSingle(self), "GET",
                  EpId("properties/", loc.property_id), 200, FALSE,
                  "Get Single Property (Public)")
  \/ /\ runner = "backend" /\ pc = "props_create"
     /\ \E r \in Answers(Good(201)) :
          LET ret == make_request(self, "POST", Ep("properties"), 201, TRUE, r)
              cid == Backend_created_id(ret.success, ret.data)
          IN /\ self' = log_test(self, "Create Property (Protected)",
                                 JBool(ret.success), NoDetail)
             /\ wire' = Sent(Request(self, "POST", Ep("properties"), 201, TRUE), r, ret)
             /\ loc' = [loc EXCEPT !.success = ret.success,
                                   !.created_property_id = cid.val, !.exc = cid.exc]
             /\ faults' = Charge(Good(201), r)
             /\ pc' = IF ~cid.ok THEN "raised"
                      ELSE IF Truthy(cid.val) THEN "props_update"
                      ELSE OtherStart(self)
     /\ UNCHANGED <<runner, exit_code>>
  \/ BackendCheck("props_update", "props_delete", "PUT",
                  EpId("properties/", loc.created_property_id), 200, TRUE,
                  "Update Property (Protected)")
  \/ BackendCheck("props_delete", OtherStart(self), "DELETE",
                  EpId("properties/", loc.created_property_id), 200, TRUE,
                  "Delete Property (Protected)")

test_other_endpoints ==
  \/ BackendCheck("other_users", "other_stats", "GET", Ep("users"), 200, TRUE,
                  "List Users (Protected)")
  \/ BackendCheck("other_stats", "other_blog", "GET", Ep("dashboard/stats"), 200, TRUE,
                  "Dashboard Stats (Protected)")
  \/ BackendCheck("other_blog",
                  IF Truthy(self.token) THEN "other_inquiries" ELSE "err_404",
                  "GET", Ep("blog"), 200, FALSE, "List Blog Posts (Public)")
  \/ BackendCheck("other_inquiries", "err_404", "GET", Ep("inquiries"), 200, TRUE,
                  "List Inquiries (Protected)")

test_error_handling ==
  \/ BackendCheck("err_404", "err_unauth", "GET", Ep("properties/non-existent-id"),
                  404, FALSE, "404 Error Handling")
  \/ BackendCheck("err_unauth", "err_login", "POST", Ep("properties"), 401, FALSE,
                  "Unauthorized Access Handling")
  \/ BackendCheck("err_login", "cors", "POST", Ep("auth/login"), 401, FALSE,
                  "Invalid Login Handling")

\* A request sent with the requests module directly, not through make_request.
Direct(method, endpoint) ==
  [via |-> "requests", method |-> method, url |-> endpoint, content_type |-> NoHeader,
   authorization |-> NoHeader, expected |-> 0, use_auth |-> FALSE]

SentDirect(req, r) ==
  [wire EXCEPT !.direct = @ + 1, !.log = Append(@, req),
               !.req = req, !.resp = r, !.ret = NoReturn,
               !.answers = IF wire.run = 1 THEN Append(@, r) ELSE @]

\* response.status_code in [200, 204] and cors_headers['Access-Control-Allow-Origin']
CorsSuccess(r) == IF r.status \in {200, 204} THEN r.val ELSE JBool(FALSE)

test_cors_configuration ==
  /\ runner = "backend" /\ pc = "cors"
  /\ \E r \in PreflightAnswers :
       /\ self' = IF r.kind = "error"
                    THEN log_test(self, "CORS Preflight Request", JBool(FALSE),
                                  Detail(r.text, NoArg))
                    ELSE log_test(self, "CORS Preflight Request", CorsSuccess(r),
                                  Detail("Headers: ", r.val))
       /\ wire' = SentDirect(Direct("OPTIONS", Ep("auth/login")), r)
       /\ faults' = Charge(GoodPreflight, r)
  /\ pc' = "summary"
  /\ UNCHANGED <<runner, loc, exit_code>>

\* Lines 302-318 of run_all_tests: the summary and the return value.
run_all_tests ==
  /\ runner = "backend" /\ pc = "summary"
  /\ IF self.tests_run = 0
       THEN /\ pc' = "raised"
            /\ loc' = [loc EXCEPT !.exc = "ZeroDivisionError"]
       ELSE /\ pc' = "returned"
            /\ loc' = [loc EXCEPT !.result = (self.tests_passed = self.tests_run)]
  /\ UNCHANGED <<runner, self, wire, faults, exit_code>>

\* main with line 326 replaced by `return 0`.
main_ReturnedIsZero ==
  /\ runner = "backend" /\ pc \in {"returned", "raised"}
  /\ exit_code' = IF pc = "returned" THEN 0 ELSE 1
  /\ pc' = "exited"
  /\ UNCHANGED <<runner, self, loc, wire, faults>>

\* main(): 0 if run_all_tests returned True, 1 if it returned False or raised.
main ==
  /\ runner = "backend" /\ pc \in {"returned", "raised"}
  /\ exit_code' = IF pc = "returned" /\ loc.result THEN 0 ELSE 1
  /\ pc' = "exited"
  /\ UNCHANGED <<runner, self, loc, wire, faults>>

(***************************************************************************)
(* vercel_deployment_test.py: VercelDeploymentTester                       *)
(***************************************************************************)
\* __init__
V_init ==
  [token |-> None, tests_run |-> 0, tests_passed |-> 0, test_results |-> <<>>,
   calls |-> 0]

\* log_test(name, success, details, expected_status, actual_status)
V_log_test(s, name, success, details, expected_status, actual_status) ==
  [s EXCEPT !.calls = @ + 1, !.tests_run = @ + 1,
            !.tests_passed = IF Truthy(success) THEN @ + 1 ELSE @,
            !.test_results = Append(@, [name |-> name, success |-> success,
                                         details |-> details,
                                         expected_status |-> expected_status,
                                         actual_status |-> actual_status])]

\* make_request: the returned (success, response_data, status_code).
V_make_request(s, method, endpoint, expected_status, use_auth, r) ==
  IF method \notin Methods
    THEN [success |-> FALSE, data |-> JDict([error |-> JStr("Unsupported method")]),
          status |-> 0]
  ELSE IF r.kind = "error"
    THEN [success |-> FALSE, data |-> JDict([error |-> JStr(r.text)]), status |-> 0]
  ELSE [success |-> r.status = expected_status, data |-> ResponseData(r),
        status |-> r.status]

\* f"Response: {response}" if not success else ""
V_details(ret) == IF ~ret.success THEN Detail("Response: ", ret.data) ELSE NoDetail

\* Line 86: success and response.get("success") == True and
\* response.get("message") == "API is healthy"
V_health_ok(ret) ==
  LET g1 == PyGet(ret.data, "success")
      g2 == PyGet(ret.data, "message")
  IN IF ~ret.success THEN Ok(FALSE)
     ELSE IF ~g1.ok THEN g1
     ELSE IF ~IsTrue(g1.val) THEN Ok(FALSE)
     ELSE IF ~g2.ok THEN g2
     ELSE Ok(g2.val = JStr("API is healthy"))

\* Line 95: success and "message" in response
V_root_ok(ret) == IF ~ret.success THEN Ok(FALSE) ELSE PyIn("message", ret.data)

\* One step of a test function: the request, the tester after the Python that
\* follows it (out), and where control goes.
V_step(at, method, endpoint, expected_status, use_auth, r, ret, out, next) ==
  /\ runner = "vercel" /\ pc = at
  /\ self' = out.s
  /\ wire' = Sent(Request(self, method, endpoint, expected_status, use_auth), r, ret)
  /\ loc' = [loc EXCEPT !.success = ret.success, !.response = ret.data,
                        !.status = ret.status, !.exc = out.exc]
  /\ faults' = Charge(Good(expected_status), r)
  /\ pc' = Goto(out, next)
  /\ UNCHANGED <<runner, exit_code>>

\* Lines 110-117 with the 501 branch dropped and every status but 501 passed.
V_blog_no_auth_Not501(s, ret) ==
  IF ret.status /= 501
    THEN V_log_test(s, "POST /api/blog (No Auth)", JBool(TRUE),
                    Detail("Correctly returns 401 (Unauthorized) - Fix successful!",
                           NoArg), JInt(401), JInt(ret.status))
    ELSE V_log_test(s, "POST /api/blog (No Auth)", JBool(FALSE),
                    Detail("Unexpected status code: ", JInt(ret.status)),
                    JInt(401), JInt(ret.status))

\* Lines 110-117: the verdict on the status of the unauthenticated POST /api/blog.
V_blog_no_auth(s, ret) ==
  IF ret.status = 501
    THEN V_log_test(s, "POST /api/blog (No Auth)", JBool(FALSE),
                    Detail("CRITICAL: Still returning 501 - Vercel fix failed!", NoArg),
                    JInt(401), JInt(ret.status))
  ELSE IF ret.status = 401
    THEN V_log_test(s, "POST /api/blog (No Auth)", JBool(TRUE),
                    Detail("Correctly returns 401 (Unauthorized) - Fix successful!",
                           NoArg), JInt(401), JInt(ret.status))
  ELSE V_log_test(s, "POST /api/blog (No Auth)", JBool(FALSE),
                  Detail("Unexpected status code: ", JInt(ret.status)),
                  JInt(401), JInt(ret.status))

V_test_critical_endpoints ==
  \/ \E r \in Answers(Good(200)) :
       LET ret == V_make_request(self, "GET", Ep("health"), 200, FALSE, r)
           ok == V_health_ok(ret)
           out == IF ~ok.ok THEN Raised(self, ok.exc)
                  ELSE IF ok.val
                    THEN Done(V_log_test(self, "GET /api/health", JBool(TRUE),
                                         Detail("Correct response format", NoArg),
                                         JInt(200), JInt(ret.status)))
                  ELSE Done(V_log_test(self, "GET /api/health", JBool(FALSE),
                                       Detail("Unexpected response: ", ret.data),
                                       JInt(200), JInt(ret.status)))
       IN V_step("v_health", "GET", Ep("health"), 200, FALSE, r, ret, out, "v_root")
  \/ \E r \in Answers(Good(200)) :
       LET ret == V_make_request(self, "GET", Abs("/api"), 200, FALSE, r)
           ok == V_root_ok(ret)
           out == IF ~ok.ok THEN Raised(self, ok.exc)
                  ELSE IF ok.val
                    THEN Done(V_log_test(self, "GET /api (Root)", JBool(TRUE),
                                         Detail("API info returned", NoArg),
                                         JInt(200), JInt(ret.status)))
                  ELSE Done(V_log_test(self, "GET /api (Root)", JBool(FALSE),
                                       Detail("No API info: ", ret.data),
                                       JInt(200), JInt(ret.status)))
       IN V_step("v_root", "GET", Abs("/api"), 200, FALSE, r, ret, out, "v_blog_noauth")
  \/ \E r \in Answers(Good(401)) :
       LET ret == V_make_request(self, "POST", Ep("blog"), 401, FALSE, r)
           out == Done(V_blog_no_auth(self, ret))
       IN V_step("v_blog_noauth", "POST", Ep("blog"), 401, FALSE, r, ret, out,
                 "v_blog_get")
  \/ \E r \in Answers(Good(200)) :
       LET ret == V_make_request(self, "GET", Ep("blog"), 200, FALSE, r)
           out == Done(V_log_test(self, "GET /api/blog", JBool(ret.success),
                                  V_details(ret), JInt(200), JInt(ret.status)))
       IN V_step("v_blog_get", "GET", Ep("blog"), 200, FALSE, r, ret, out, "v_login")

\* Lines 139-144 of test_authentication_flow: the token and the login result.
V_login(s, ret) ==
  LET failed == Done(V_log_test(s, "POST /api/auth/login", JBool(FALSE),
                                Detail("Login failed: ", ret.data),
                                JInt(200), JInt(ret.status)))
      in1 == PyIn("data", ret.data)
      data == PyGetItem(ret.data, "data")
      in2 == PyIn("token", data.val)
      tok == PyGetItem(data.val, "token")
  IN IF ~ret.success THEN failed
     ELSE IF ~in1.ok THEN Raised(s, in1.exc)
     ELSE IF ~in1.val THEN failed
     ELSE IF ~data.ok THEN Raised(s, data.exc)
     ELSE IF ~in2.ok THEN Raised(s, in2.exc)
     ELSE IF ~in2.val THEN failed
     ELSE IF ~tok.ok THEN Raised(s, tok.exc)
     ELSE Done(V_log_test([s EXCEPT !.token = tok.val], "POST /api/auth/login",
                          JBool(TRUE), Detail("Login successful, token received", NoArg),
                          JInt(200), JInt(ret.status)))

\* The first check of test_other_endpoints that runs.
V_OtherStart(s) == IF Truthy(s.token) THEN "v_dashboard" ELSE "v_properties"

V_test_authentication_flow ==
  \/ \E r \in Answers(Good(200)) :
       LET ret == V_make_request(self, "POST", Ep("auth/login"), 200, FALSE, r)
           out == V_login(self, ret)
           passed == out.s.tests_passed > self.tests_passed
       IN V_step("v_login", "POST", Ep("auth/login"), 200, FALSE, r, ret, out,
                 IF passed THEN "v_blog_auth" ELSE V_OtherStart(out.s))
  \/ \E r \in Answers(Good(200)) :
       LET ret == V_make_request(self, "POST", Ep("blog"), 200, TRUE, r)
           out == IF ret.success
                    THEN Done(V_log_test(self, "POST /api/blog (With Auth)", JBool(TRUE),
                                         Detail("Blog post created successfully", NoArg),
                                         JInt(200), JInt(ret.status)))
                  ELSE Done(V_log_test(self, "POST /api/blog (With Auth)", JBool(FALSE),
                                       Detail("Failed to create post: ", ret.data),
                                       JInt(200), JInt(ret.status)))
       IN V_step("v_blog_auth", "POST", Ep("blog"), 200, TRUE, r, ret, out,
                 V_OtherStart(self))

V_test_other_endpoints ==
  \/ \E r \in Answers(Good(200)) :
       LET ret == V_make_request(self, "GET", Ep("dashboard/stats"), 200, TRUE, r)
           out == Done(V_log_test(self, "GET /api/dashboard", JBool(ret.success),
                                  V_details(ret), JInt(200), JInt(ret.status)))
       IN V_step("v_dashboard", "GET", Ep("dashboard/stats"), 200, TRUE, r, ret, out,
                 "v_properties")
  \/ \E r \in Answers(Good(200)) :
       LET ret == V_make_request(self, "GET", Ep("properties"), 200, FALSE, r)
           out == Done(V_log_test(self, "GET /api/properties", JBool(ret.success),
                                  V_details(ret), JInt(200), JInt(ret.status)))
       IN V_step("v_properties", "GET", Ep("properties"), 200, FALSE, r, ret, out,
                 "v_cors")

V_test_express_app_middleware ==
  \/ /\ runner = "vercel" /\ pc = "v_cors"
     /\ \E r \in PreflightAnswers :
          /\ self' = IF r.kind = "error"
                       THEN V_log_test(self, "CORS Middleware", JBool(FALSE),
                                       Detail("Error testing CORS: ", JStr(r.text)),
                                       None, None)
                     ELSE IF Truthy(r.val)
                       THEN V_log_test(self, "CORS Middleware", JBool(TRUE),
                                       Detail("CORS header present: ", r.val), None, None)
                     ELSE V_log_test(self, "CORS Middleware", JBool(FALSE),
                                     Detail("No CORS headers found", NoArg), None, None)
          /\ wire' = SentDirect(Direct("OPTIONS", Ep("auth/login")), r)
          /\ faults' = Charge(GoodPreflight, r)
     /\ pc' = "v_rate"
     /\ UNCHANGED <<runner, loc, exit_code>>
  \/ \E r \in Answers(Good(200)) :
       LET ret == V_make_request(self, "GET", Ep("health"), 200, FALSE, r)
       IN V_step("v_rate", "GET", Ep("health"), 200, FALSE, r, ret, Done(self),
                 "v_summary")

\* Lines 214-243 of run_all_tests: the summary and the return value.
V_run_all_tests ==
  /\ runner = "vercel" /\ pc = "v_summary"
  /\ IF self.tests_run = 0
       THEN /\ pc' = "raised"
            /\ loc' = [loc EXCEPT !.exc = "ZeroDivisionError"]
       ELSE /\ pc' = "returned"
            /\ loc' = [loc EXCEPT !.result = (self.tests_passed = self.tests_run)]
  /\ UNCHANGED <<runner, self, wire, faults, exit_code>>

\* main(): 0 if run_all_tests returned True, 1 if it returned False or raised.
V_main ==
  /\ runner = "vercel" /\ pc \in {"returned", "raised"}
  /\ exit_code' = IF pc = "returned" /\ loc.result THEN 0 ELSE 1
  /\ pc' = "exited"
  /\ UNCHANGED <<runner, self, loc, wire, faults>>

(***************************************************************************)
(* dashboard_integration_test.py: DashboardIntegrationTester               *)
(***************************************************************************)
\* __init__
D_init == [token |-> None, tests_run |-> 0, tests_passed |-> 0, calls |-> 0]

\* log_test(name, success, details)
D_log_test(s, name, success, details) ==
  [s EXCEPT !.calls = @ + 1, !.tests_run = @ + 1,
            !.tests_passed = IF Truthy(success) THEN @ + 1 ELSE @]

\* make_request(method, endpoint, data, use_auth): the returned
\* (status_code, body); every exception gives (0, {"error": ...}).
D_make_request(s, method, endpoint, use_auth, r) ==
  IF method \notin {"GET", "POST"}
    THEN [status |-> 0, data |-> JDict([error |-> JStr("UnboundLocalError")])]
  ELSE IF r.kind = "error"
    THEN [status |-> 0, data |-> JDict([error |-> JStr(r.text)])]
  ELSE IF ~r.valid /\ r.text = ""
    THEN [status |-> r.status, data |-> EmptyDict]
  ELSE IF ~r.valid
    THEN [status |-> 0, data |-> JDict([error |-> JStr("JSONDecodeError")])]
  ELSE [status |-> r.status, data |-> r.val]

D_Request(s, method, endpoint, use_auth) ==
  [via |-> "make_request", method |-> method, url |-> endpoint,
   content_type |-> JStr("application/json"),
   authorization |-> IF use_auth /\ Truthy(s.token) THEN Bearer(s.token) ELSE NoHeader,
   expected |-> 0, use_auth |-> use_auth]

\* status == 200 and response.get('success')
D_ok(ret) == IF ret.status /= 200 THEN Ok(JBool(FALSE)) ELSE PyGet(ret.data, "success")

\* Whether one property names an Italian city, as the loops of
\* test_dashboard_data_endpoints decide it.
D_is_italian(prop, cities) ==
  LET city == PyGetDefault(prop, "city", JStr(""))
      title == PyGetDefault(prop, "title", JStr(""))
  IN IF ~city.ok THEN city
     ELSE IF city.val.t /= "str" THEN Raise("AttributeError")
     ELSE IF title.val.t /= "str" THEN Raise("AttributeError")
     ELSE Ok(\E c \in cities : \/ IsSubstring(c, Lower(city.val.s))
                               \/ IsSubstring(c, Lower(title.val.s)))

\* for prop in properties: ... ; whether any property was Italian.
D_any_italian(properties, cities) ==
  CASE properties.t = "list" ->
         IF \E i \in DOMAIN properties.items :
              ~D_is_italian(properties.items[i], cities).ok
           THEN Raise("AttributeError")
           ELSE Ok(\E i \in DOMAIN properties.items :
                     D_is_italian(properties.items[i], cities).val)
    [] properties.t \in {"str", "dict"} ->
         IF Truthy(properties) THEN Raise("AttributeError") ELSE Ok(FALSE)
    [] OTHER -> Raise("TypeError")

\* Lines 54-71 of test_authentication_flow: the login.
D_login(s, ret) ==
  LET failed == Done(D_log_test(s, "Admin Login", JBool(FALSE),
                                Detail("Status, Response: ", ret.data)))
      ok == D_ok(ret)
      in1 == PyIn("data", ret.data)
      data == PyGetItem(ret.data, "data")
      tok == PyGet(data.val, "token")
  IN IF ~ok.ok THEN Raised(s, ok.exc)
     ELSE IF ~Truthy(ok.val) THEN failed
     ELSE IF ~in1.ok THEN Raised(s, in1.exc)
     ELSE IF ~in1.val THEN failed
     ELSE IF ~data.ok THEN Raised(s, data.exc)
     ELSE IF ~tok.ok THEN Raised(s, tok.exc)
     ELSE Done(D_log_test([s EXCEPT !.token = tok.val], "Admin Login", JBool(TRUE),
                          NoDetail))

\* Lines 59-68: the /auth/me check and the user data it prints.
D_me(s, ret) ==
  LET ok == D_ok(ret)
      s1 == D_log_test(s, "Get Current User (/auth/me)", ok.val, NoDetail)
      user_data == PyGetDefault(ret.data, "data", EmptyDict)
      name == PyGet(user_data.val, "name")
  IN IF ~ok.ok THEN Raised(s, ok.exc)
     ELSE IF ~Truthy(ok.val) THEN Done(s1)
     ELSE IF ~user_data.ok THEN Raised(s1, user_data.exc)
     ELSE IF ~name.ok THEN Raised(s1, name.exc)
     ELSE Done(s1)

\* Lines 83-121: the dashboard endpoint and the Italian properties in it.
D_dashboard(s, ret) ==
  LET ok == D_ok(ret)
      s1 == D_log_test(s, "Dashboard Endpoint", JBool(TRUE), NoDetail)
      data == PyGetDefault(ret.data, "data", EmptyDict)
      stats == PyGetDefault(data.val, "stats", EmptyDict)
      activity == PyGetDefault(data.val, "activity", EmptyDict)
      count == PyGet(stats.val, "propertiesCount")
      properties == PyGetDefault(activity.val, "properties", JList(<<>>))
      len == PyLenPositive(properties.val)
      italian == D_any_italian(properties.val,
                               {"rome", "milan", "florence", "umbria", "cinque terre"})
  IN IF ~ok.ok THEN Raised(s, ok.exc)
     ELSE IF ~Truthy(ok.val)
       THEN Done(D_log_test(s, "Dashboard Endpoint", JBool(FALSE),
                            Detail("Status: ", JInt(ret.status))))
     ELSE IF ~data.ok THEN Raised(s1, data.exc)
     ELSE IF ~stats.ok THEN Raised(s1, stats.exc)
     ELSE IF ~activity.ok THEN Raised(s1, activity.exc)
     ELSE IF ~count.ok THEN Raised(s1, count.exc)
     ELSE IF ~properties.ok THEN Raised(s1, properties.exc)
     ELSE IF ~len.ok THEN Raised(s1, len.exc)
     ELSE IF ~italian.ok THEN Raised(s1, italian.exc)
     ELSE IF italian.val
       THEN Done(D_log_test(s1, "Italian Property Data", JBool(TRUE), NoDetail))
     ELSE Done(D_log_test(s1, "Italian Property Data", JBool(FALSE),
                          Detail("No Italian cities found in properties", NoArg)))

\* Lines 127-145: the properties fallback.
D_fallback(s, ret) ==
  LET ok == D_ok(ret)
      s1 == D_log_test(s, "Properties Fallback", JBool(TRUE), NoDetail)
      data == PyGetDefault(ret.data, "data", EmptyDict)
      properties == PyGetDefault(data.val, "items", JList(<<>>))
      len == PyLenPositive(properties.val)
      italian == D_any_italian(properties.val, {"rome", "milan", "florence"})
  IN IF ~ok.ok THEN Raised(s, ok.exc)
     ELSE IF ~Truthy(ok.val)
       THEN Done(D_log_test(s, "Properties Fallback", JBool(FALSE),
                            Detail("Status: ", JInt(ret.status))))
     ELSE IF ~data.ok THEN Raised(s1, data.exc)
     ELSE IF ~properties.ok THEN Raised(s1, properties.exc)
     ELSE IF ~len.ok THEN Raised(s1, len.exc)
     ELSE IF ~italian.ok THEN Raised(s1, italian.exc)
     ELSE Done(D_log_test(s1, "Italian Properties in Fallback", JBool(italian.val),
                          NoDetail))

\* One step of a test function: the request, the tester after the Python that
\* follows it (out), and where control goes.
D_step(at, method, endpoint, use_auth, r, ret, out, next) ==
  /\ runner = "dashboard" /\ pc = at
  /\ self' = out.s
  /\ wire' = [wire EXCEPT !.sent = @ + 1,
                          !.log = Append(@, D_Request(self, method, endpoint, use_auth)),
                          !.req = D_Request(self, method, endpoint, use_auth),
                          !.resp = r, !.ret = ret]
  /\ loc' = [loc EXCEPT !.status = ret.status, !.response = ret.data, !.exc = out.exc]
  /\ faults' = Charge(Good(200), r)
  /\ pc' = Goto(out, next)
  /\ UNCHANGED <<runner, exit_code>>

D_test_authentication_flow ==
  \/ \E r \in Answers(Good(200)) :
       LET ret == D_make_request(self, "POST", Ep("auth/login"), FALSE, r)
           out == D_login(self, ret)
       IN D_step("d_login", "POST", Ep("auth/login"), FALSE, r, ret, out,
                 IF out.s.tests_passed > self.tests_passed THEN "d_me" ELSE "d_cors")
  \/ \E r \in Answers(Good(200)) :
       LET ret == D_make_request(self, "GET", Ep("auth/me"), TRUE, r)
           out == D_me(self, ret)
       IN D_step("d_me", "GET", Ep("auth/me"), TRUE, r, ret, out,
                 IF Truthy(self.token) THEN "d_dashboard" ELSE "d_cors")

D_test_dashboard_data_endpoints ==
  \/ \E r \in Answers(Good(200)) :
       LET ret == D_make_request(self, "GET", Ep("dashboard"), TRUE, r)
           out == D_dashboard(self, ret)
       IN D_step("d_dashboard", "GET", Ep("dashboard"), TRUE, r, ret, out,
                 IF out.s.tests_passed > self.tests_passed THEN "d_cors"
                 ELSE "d_fallback")
  \/ \E r \in Answers(Good(200)) :
       LET ret == D_make_request(self, "GET", Ep("properties?limit=5"), FALSE, r)
           out == D_fallback(self, ret)
       IN D_step("d_fallback", "GET", Ep("properties?limit=5"), FALSE, r, ret, out,
                 "d_cors")

D_test_cors_and_frontend_integration ==
  /\ runner = "dashboard" /\ pc = "d_cors"
  /\ \E r \in PreflightAnswers :
       /\ self' = IF r.kind = "error"
                    THEN D_log_test(self, "CORS Configuration", JBool(FALSE),
                                    Detail(r.text, NoArg))
                    ELSE D_log_test(self, "CORS Configuration", CorsSuccess(r), NoDetail)
       /\ wire' = SentDirect(Direct("OPTIONS", Ep("auth/login")), r)
       /\ faults' = Charge(GoodPreflight, r)
  /\ pc' = "d_summary"
  /\ UNCHANGED <<runner, loc, exit_code>>

\* Lines 193-209 of run_dashboard_tests: the summary and the return value.
D_run_dashboard_tests ==
  /\ runner = "dashboard" /\ pc = "d_summary"
  /\ IF self.tests_run = 0
       THEN /\ pc' = "raised"
            /\ loc' = [loc EXCEPT !.exc = "ZeroDivisionError"]
       ELSE /\ pc' = "returned"
            /\ loc' = [loc EXCEPT !.result = (self.tests_passed = self.tests_run)]
  /\ UNCHANGED <<runner, self, wire, faults, exit_code>>

\* main(): no handler; an exception ends the interpreter with status 1.
D_main ==
  /\ runner = "dashboard" /\ pc \in {"returned", "raised"}
  /\ exit_code' = IF pc = "returned" THEN (IF loc.result THEN 0 ELSE 1)
                  ELSE Unhandled(loc.exc)
  /\ pc' = "exited"
  /\ UNCHANGED <<runner, self, loc, wire, faults>>

(***************************************************************************)
(* final_deployment_test_report.py: FinalDeploymentTester                  *)
(***************************************************************************)
\* __init__
F_init ==
  [tests_run |-> 0, tests_passed |-> 0, critical_issues |-> <<>>,
   minor_issues |-> <<>>, successes |-> <<>>, calls |-> 0]

\* log_result with lines 34-36 dropped: a failure outside the critical
\* category is counted and recorded nowhere.
F_log_result_DropMinor(s, category, name, success, message) ==
  IF success
    THEN [s EXCEPT !.calls = @ + 1, !.tests_run = @ + 1, !.tests_passed = @ + 1,
                   !.successes = Append(@, [name |-> name, message |-> message])]
  ELSE IF category = "critical"
    THEN [s EXCEPT !.calls = @ + 1, !.tests_run = @ + 1,
                   !.critical_issues = Append(@, [name |-> name, message |-> message])]
  ELSE [s EXCEPT !.calls = @ + 1, !.tests_run = @ + 1]

\* log_result(category, name, success, message)
F_log_result(s, category, name, success, message) ==
  IF success
    THEN [s EXCEPT !.calls = @ + 1, !.tests_run = @ + 1, !.tests_passed = @ + 1,
                   !.successes = Append(@, [name |-> name, message |-> message])]
  ELSE IF category = "critical"
    THEN [s EXCEPT !.calls = @ + 1, !.tests_run = @ + 1,
                   !.critical_issues = Append(@, [name |-> name, message |-> message])]
  ELSE [s EXCEPT !.calls = @ + 1, !.tests_run = @ + 1,
                 !.minor_issues = Append(@, [name |-> name, message |-> message])]

\* What the machine the script runs on can present to
\* test_serverless_configuration: the node subprocess and /app/vercel.json.
NodeOutcomes == {"exit0", "exit1", "raise"}

GoodConfig == JDict([builds |-> JList(<<JDict([src |-> JStr("backend/api/index.cjs")])>>)])

ConfigFiles ==
  { [readable |-> TRUE, config |-> GoodConfig],
    [readable |-> TRUE,
     config |-> JDict([builds |-> JList(<<JDict([src |-> JStr("backend/api/index.js")])>>)])],
    [readable |-> TRUE, config |-> JDict([builds |-> JList(<<>>)])],
    [readable |-> TRUE, config |-> EmptyDict],
    [readable |-> TRUE, config |-> JList(<<>>)],
    [readable |-> FALSE, config |-> None] }

\* config.get("builds", [{}])[0].get("src") == "backend/api/index.cjs"
F_config_ok(config) ==
  LET builds == PyGetDefault(config, "builds", JList(<<EmptyDict>>))
      first == PyFirst(builds.val)
      src == PyGet(first.val, "src")
  IN IF ~builds.ok THEN builds
     ELSE IF ~first.ok THEN first
     ELSE IF ~src.ok THEN src
     ELSE Ok(src.val = JStr("backend/api/index.cjs"))

\* A step of the report: the tester after it, the locals after it, the request
\* it sent (if any) and the environment's answer.
F_step(at, s1, loc1, req, r, nominal, next) ==
  /\ runner = "final" /\ pc = at
  /\ self' = s1
  /\ loc' = loc1
  /\ wire' = IF req.via = "none" THEN wire ELSE SentDirect(req, r)
  /\ faults' = IF r = nominal THEN faults ELSE faults + 1
  /\ pc' = next
  /\ UNCHANGED <<runner, exit_code>>

\* The handler with every caught exception recorded as critical.
F_except_AlwaysCritical(s, category, name, text) ==
  F_log_result(s, "critical", name, FALSE, Detail(text, NoArg))

\* The handler of each test function: except Exception as e.
F_except(s, category, name, text) ==
  F_log_result(s, category, name, FALSE, Detail(text, NoArg))

F_test_primary_deployment_fix ==
  \/ \E r \in Answers(Good(200)) :
       LET s1 == IF r.kind = "error"
                   THEN F_except(self, "critical", "Vercel URL Loads", r.text)
                 ELSE IF r.status = 200
                   THEN F_log_result(self, "critical", "Vercel URL Loads", TRUE,
                                     Detail("URL loads successfully", NoArg))
                 ELSE F_log_result(self, "critical", "Vercel URL Loads", FALSE,
                                   Detail("URL returns ", JInt(r.status)))
           on == r.kind = "http" /\ r.status = 200
       IN F_step("f_url", s1, [loc EXCEPT !.primary_success = FALSE],
                 Direct("GET", Abs("/")), r, Good(200),
                 IF on THEN "f_api" ELSE "f_handler")
  \/ \E r \in Answers(Good(200)) :
       LET version == PyGetDefault(r.val, "version", JStr("unknown"))
           raised == \/ r.kind = "error"
                     \/ r.status = 200 /\ (~r.valid \/ ~version.ok)
           s1 == IF raised
                   THEN F_except(self, "critical", "Vercel URL Loads",
                                 IF r.kind = "error" THEN r.text ELSE "Connection error")
                 ELSE IF r.status = 200
                   THEN F_log_result(self, "critical", "API Endpoint Accessible", TRUE,
                                     Detail("API accessible, version ", version.val))
                 ELSE F_log_result(self, "critical", "API Endpoint Accessible", FALSE,
                                   Detail("API returns ", JInt(r.status)))
       IN F_step("f_api", s1,
                 [loc EXCEPT !.primary_success = ~raised /\ r.status = 200],
                 Direct("GET", Ep("")), r, Good(200), "f_handler")

F_test_serverless_configuration ==
  \/ \E node \in IF faults < MaxFaults THEN NodeOutcomes ELSE {"exit0"} :
       LET s1 == CASE node = "raise" ->
                        F_except(self, "critical", "Serverless Configuration", "Error")
                   [] node = "exit0" ->
                        F_log_result(self, "critical", "CommonJS Handler Import", TRUE,
                                     Detail("Handler imports", NoArg))
                   [] node = "exit1" ->
                        F_log_result(self, "critical", "CommonJS Handler Import", FALSE,
                                     Detail("Handler import failed", NoArg))
       IN F_step("f_handler", s1, [loc EXCEPT !.config_success = FALSE],
                 NoRequest, node, "exit0",
                 IF node = "exit0" THEN "f_config" ELSE "f_endpoints")
  \/ \E file \in IF faults < MaxFaults THEN ConfigFiles
                 ELSE {[readable |-> TRUE, config |-> GoodConfig]} :
       LET ok == F_config_ok(file.config)
           raised == ~file.readable \/ ~ok.ok
           s1 == IF raised
                   THEN F_except(self, "critical", "Serverless Configuration", "Error")
                 ELSE IF ok.val
                   THEN F_log_result(self, "critical", "Vercel Config", TRUE,
                                     Detail("Points to index.cjs (CommonJS)", NoArg))
                 ELSE F_log_result(self, "critical", "Vercel Config", FALSE,
                                   Detail("Incorrect build configuration", NoArg))
       IN F_step("f_config", s1,
                 [loc EXCEPT !.config_success = ~raised /\ ok.val],
                 NoRequest, file, [readable |-> TRUE, config |-> GoodConfig],
                 "f_endpoints")

F_working_endpoints ==
  << [url |-> Abs("/health"), name |-> "Health Check Endpoint"],
     [url |-> Ep("health"), name |-> "API Health Endpoint"],
     [url |-> Ep("blog"), name |-> "Blog List Endpoint"],
     [url |-> Ep(""), name |-> "API Info Endpoint"] >>

F_test_working_endpoints ==
  \E r \in Answers(Good(200)) :
    LET e == F_working_endpoints[loc.i]
        s1 == IF r.kind = "error" THEN F_except(self, "minor", e.name, r.text)
              ELSE IF r.status = 200
                THEN F_log_result(self, "critical", e.name, TRUE, Detail("works", NoArg))
              ELSE F_log_result(self, "minor", e.name, FALSE,
                                Detail("Returns ", JInt(r.status)))
        last == loc.i = Len(F_working_endpoints)
    IN F_step("f_endpoints", s1, [loc EXCEPT !.i = IF last THEN 1 ELSE @ + 1],
              Direct("GET", e.url), r, Good(200),
              IF last THEN "f_login" ELSE "f_endpoints")

\* Lines 161-188 of test_authentication_flow: the token of the login response.
F_token(r) ==
  LET in1 == PyIn("data", r.val)
      data == PyGetItem(r.val, "data")
      in2 == PyIn("token", data.val)
      tok == PyGetItem(data.val, "token")
  IN IF ~r.valid THEN Raise("JSONDecodeError")
     ELSE IF ~in1.ok THEN in1
     ELSE IF ~in1.val THEN Ok(NoArg)
     ELSE IF ~data.ok THEN data
     ELSE IF ~in2.ok THEN in2
     ELSE IF ~in2.val THEN Ok(NoArg)
     ELSE tok

F_test_authentication_flow ==
  \/ \E r \in Answers(Good(200)) :
       LET tok == F_token(r)
           raised == r.kind = "error" \/ (r.status = 200 /\ ~tok.ok)
           found == ~raised /\ r.status = 200 /\ tok.val /= NoArg
           s1 == IF raised
                   THEN F_except(self, "minor", "Authentication Flow",
                                 IF r.kind = "error" THEN r.text ELSE tok.exc)
                 ELSE IF r.status /= 200
                   THEN F_log_result(self, "minor", "Authentication Login", FALSE,
                                     Detail("Login returns ", JInt(r.status)))
                 ELSE IF found
                   THEN F_log_result(self, "critical", "Authentication Login", TRUE,
                                     Detail("Login works and returns token", NoArg))
                 ELSE F_log_result(self, "minor", "Authentication Login", FALSE,
                                   Detail("Login response missing token", NoArg))
       IN F_step("f_login", s1, [loc EXCEPT !.token = IF found THEN tok.val ELSE @],
                 Direct("POST", Ep("auth/login")), r, Good(200),
                 IF found THEN "f_me" ELSE "f_known")
  \/ \E r \in Answers(Good(200)) :
       LET s1 == IF r.kind = "error"
                   THEN F_except(self, "minor", "Authentication Flow", r.text)
                 ELSE IF r.status = 200
                   THEN F_log_result(self, "critical", "Authenticated Request", TRUE,
                                     Detail("Token-based auth works", NoArg))
                 ELSE F_log_result(self, "minor", "Authenticated Request", FALSE,
                                   Detail("Auth endpoint returns ", JInt(r.status)))
       IN F_step("f_me", s1, loc,
                 [Direct("GET", Ep("auth/me")) EXCEPT !.authorization = Bearer(loc.token)],
                 r, Good(200), "f_known")

F_problematic_endpoints ==
  << [url |-> Ep("blog"), name |-> "Blog POST"],
     [url |-> Ep("properties"), name |-> "Properties POST"] >>

F_test_known_issues ==
  \E r \in Answers(Good(401)) :
    LET e == F_problematic_endpoints[loc.i]
        s1 == IF r.kind = "error" THEN F_except(self, "minor", e.name, r.text)
              ELSE IF r.status = 501
                THEN F_log_result(self, "minor", e.name, FALSE,
                                  Detail("Returns 501 Not Implemented (known issue)", NoArg))
              ELSE IF r.status = 401
                THEN F_log_result(self, "minor", e.name, TRUE,
                                  Detail("Returns 401 Unauthorized (correct behavior)", NoArg))
              ELSE F_log_result(self, "minor", e.name, TRUE,
                                Detail("Returns (not 501) ", JInt(r.status)))
        last == loc.i = Len(F_problematic_endpoints)
    IN F_step("f_known", s1, [loc EXCEPT !.i = IF last THEN 1 ELSE @ + 1],
              Direct("POST", e.url), r, Good(401),
              IF last THEN "f_summary" ELSE "f_known")

\* Lines 235-283 of run_comprehensive_test: the report and the verdict.
F_run_comprehensive_test ==
  /\ runner = "final" /\ pc = "f_summary"
  /\ IF self.tests_run = 0
       THEN /\ pc' = "raised"
            /\ loc' = [loc EXCEPT !.exc = "ZeroDivisionError"]
       ELSE /\ pc' = "returned"
            /\ loc' = [loc EXCEPT !.result = loc.primary_success /\ loc.config_success]
  /\ UNCHANGED <<runner, self, wire, faults, exit_code>>

\* main(): the verdict is the exit status; no handler.
F_main ==
  /\ runner = "final" /\ pc \in {"returned", "raised"}
  /\ exit_code' = IF pc = "returned" THEN (IF loc.result THEN 0 ELSE 1)
                  ELSE Unhandled(loc.exc)
  /\ pc' = "exited"
  /\ UNCHANGED <<runner, self, loc, wire, faults>>

(***************************************************************************)
(* blog_endpoint_validation_test.py: BlogEndpointValidator                 *)
(***************************************************************************)
\* __init__
B_init == [tests_run |-> 0, tests_passed |-> 0, errors |-> <<>>, calls |-> 0]

\* log_test without line 21: nothing counts the checks run.
B_log_test_NoRun(s, name, success, message) ==
  IF success
    THEN [s EXCEPT !.calls = @ + 1, !.tests_passed = @ + 1]
    ELSE [s EXCEPT !.calls = @ + 1,
                   !.errors = Append(@, [name |-> name, message |-> message])]

\* log_test(name, success, message)
B_log_test(s, name, success, message) ==
  IF success
    THEN [s EXCEPT !.calls = @ + 1, !.tests_run = @ + 1, !.tests_passed = @ + 1]
    ELSE [s EXCEPT !.calls = @ + 1, !.tests_run = @ + 1,
                   !.errors = Append(@, [name |-> name, message |-> message])]

\* Lines 77-86 of test_blog_endpoint_with_auth: the token of the login response.
B_token(r) ==
  LET in1 == PyIn("data", r.val)
      data == PyGetItem(r.val, "data")
      in2 == PyIn("token", data.val)
      tok == PyGetItem(data.val, "token")
  IN IF ~r.valid THEN Raise("JSONDecodeError")
     ELSE IF ~in1.ok THEN in1
     ELSE IF ~in1.val THEN Ok(NoArg)
     ELSE IF ~data.ok THEN data
     ELSE IF ~in2.ok THEN in2
     ELSE IF ~in2.val THEN Ok(NoArg)
     ELSE tok

B_step(at, s1, loc1, req, r, nominal, next) ==
  /\ runner = "blogval" /\ pc = at
  /\ self' = s1
  /\ loc' = loc1
  /\ wire' = SentDirect(req, r)
  /\ faults' = IF r = nominal THEN faults ELSE faults + 1
  /\ pc' = next
  /\ UNCHANGED <<runner, exit_code>>

\* Lines 47-58 and 105-116: the verdict on the status of POST /api/blog.
B_blog_verdict(s, name, r, accepted) ==
  IF r.kind = "error"
    THEN B_log_test(s, name, FALSE, Detail("Request error: ", JStr(r.text)))
  ELSE IF r.status = 501
    THEN B_log_test(s, name, FALSE,
                    Detail("CRITICAL: Still returning 501 Not Implemented!", NoArg))
  ELSE IF r.status \in accepted
    THEN B_log_test(s, name, TRUE, Detail("Returns as expected (NOT 501) ", JInt(r.status)))
  ELSE B_log_test(s, name, TRUE, Detail("Returns (NOT 501 - fix successful) ",
                                        JInt(r.status)))

B_test_blog_endpoint_without_auth ==
  \E r \in Answers(Good(401)) :
    B_step("b_noauth", B_blog_verdict(self, "POST /api/blog No Auth", r, {401}), loc,
           Direct("POST", Ep("blog")), r, Good(401), "b_login")

B_test_blog_endpoint_with_auth ==
  \/ \E r \in Answers(Good(200)) :
       LET name == "POST /api/blog With Auth"
           tok == B_token(r)
           raised == r.kind = "error" \/ (r.status = 200 /\ ~tok.ok)
           found == ~raised /\ r.status = 200 /\ tok.val /= NoArg
           s1 == IF raised
                   THEN B_log_test(self, name, FALSE,
                          Detail("Request error: ",
                                 JStr(IF r.kind = "error" THEN r.text ELSE tok.exc)))
                 ELSE IF r.status /= 200
                   THEN B_log_test(self, name, FALSE,
                                   Detail("Could not get auth token for test", NoArg))
                 ELSE IF ~found
                   THEN B_log_test(self, name, FALSE,
                                   Detail("No token in login response", NoArg))
                 ELSE self
       IN B_step("b_login", s1, [loc EXCEPT !.token = IF found THEN tok.val ELSE @],
                 Direct("POST", Ep("auth/login")), r, Good(200),
                 IF found THEN "b_auth" ELSE "b_other")
  \/ \E r \in Answers(Good(200)) :
       B_step("b_auth",
              B_blog_verdict(self, "POST /api/blog With Auth", r, {200, 201}), loc,
              [Direct("POST", Ep("blog")) EXCEPT
                 !.authorization = Bearer(loc.token),
                 !.content_type = JStr("application/json")],
              r, Good(200), "b_other")

B_methods_to_test == << Ep("blog"), Ep("health"), Abs("/") >>

\* One iteration of the loop of test_other_http_methods; the last one is
\* followed by the "Other HTTP Methods" result.
B_test_other_http_methods ==
  \E r \in Answers(Good(200)) :
    LET url == B_methods_to_test[loc.i]
        is501 == r.kind = "http" /\ r.status = 501
        s1 == IF is501
                THEN B_log_test(self, "GET url", FALSE,
                                Detail("Returns 501 Not Implemented", NoArg))
                ELSE self
        all_passed == loc.all_passed /\ ~is501
        last == loc.i = Len(B_methods_to_test)
        s2 == IF ~last THEN s1
              ELSE B_log_test(s1, "Other HTTP Methods", all_passed,
                              Detail(IF all_passed THEN "No 501 errors in other endpoints"
                                     ELSE "Some 501 errors found", NoArg))
    IN B_step("b_other", s2,
              [loc EXCEPT !.i = IF last THEN 1 ELSE @ + 1, !.all_passed = all_passed],
              Direct("GET", url), r, Good(200),
              IF last THEN "b_summary" ELSE "b_other")

\* Lines 163-192 of run_validation: the summary and the return value.
B_run_validation ==
  /\ runner = "blogval" /\ pc = "b_summary"
  /\ IF self.tests_run = 0
       THEN /\ pc' = "raised"
            /\ loc' = [loc EXCEPT !.exc = "ZeroDivisionError"]
       ELSE /\ pc' = "returned"
            /\ loc' = [loc EXCEPT !.result = (self.tests_passed = self.tests_run)]
  /\ UNCHANGED <<runner, self, wire, faults, exit_code>>

\* main(): the return value of run_validation is the exit status.
B_main ==
  /\ runner = "blogval" /\ pc \in {"returned", "raised"}
  /\ exit_code' = IF pc = "returned" THEN (IF loc.result THEN 0 ELSE 1)
                  ELSE Unhandled(loc.exc)
  /\ pc' = "exited"
  /\ UNCHANGED <<runner, self, loc, wire, faults>>

(***************************************************************************)
(* vercel_serverless_test.py: VercelServerlessConfigTester                 *)
(***************************************************************************)
\* __init__
S_init == [tests_run |-> 0, tests_passed |-> 0, errors |-> <<>>, calls |-> 0]

\* log_test(name, success, message)
S_log_test(s, name, success, message) ==
  IF success
    THEN [s EXCEPT !.calls = @ + 1, !.tests_run = @ + 1, !.tests_passed = @ + 1]
    ELSE [s EXCEPT !.calls = @ + 1, !.tests_run = @ + 1,
                   !.errors = Append(@, [name |-> name, message |-> message])]

\* A vercel.json with these values under its three keys.
VercelJson(version, builds, routes) ==
  JDict([version |-> version, builds |-> builds, routes |-> routes])

GoodBuilds ==
  JList(<<JDict([src |-> JStr("backend/api/index.js"), use |-> JStr("@vercel/node")])>>)

GoodRoutes == JList(<<JDict([dest |-> JStr("/backend/api/index.js")])>>)

\* A file the script inspects: whether it exists, whether open/json.load
\* succeed on it, and what is read from it.
File(exists, readable, content) ==
  [exists |-> exists, readable |-> readable, content |-> content]

\* The states of /app/vercel.json.
VercelJsonFiles ==
  { File(FALSE, FALSE, None),
    File(TRUE, FALSE, None),
    File(TRUE, TRUE, JList(<<>>)),
    File(TRUE, TRUE, EmptyDict),
    File(TRUE, TRUE, VercelJson(JInt(1), GoodBuilds, GoodRoutes)),
    File(TRUE, TRUE, VercelJson(JInt(2), JList(<<>>), GoodRoutes)),
    File(TRUE, TRUE, VercelJson(JInt(2), JDict([src |-> JStr("x")]), GoodRoutes)),
    File(TRUE, TRUE, VercelJson(JInt(2), JList(<<JStr("backend/api/index.js")>>),
                                GoodRoutes)),
    File(TRUE, TRUE,
         VercelJson(JInt(2),
                    JList(<<JDict([src |-> JStr("backend/api/index.cjs"),
                                   use |-> JStr("@vercel/node")])>>), GoodRoutes)),
    File(TRUE, TRUE,
         VercelJson(JInt(2),
                    JList(<<JDict([src |-> JStr("backend/api/index.js")])>>),
                    GoodRoutes)),
    File(TRUE, TRUE, VercelJson(JInt(2), GoodBuilds, None)),
    File(TRUE, TRUE, VercelJson(JInt(2), GoodBuilds, JList(<<None>>))),
    File(TRUE, TRUE, VercelJson(JInt(2), GoodBuilds, JList(<<EmptyDict>>))),
    File(TRUE, TRUE, VercelJson(JInt(2), GoodBuilds, GoodRoutes)) }

\* The sub-checks of the four functions that scan /app/backend/api/index.js:
\* the text looked for, and the name and message logged when it is missing.
Check(marker, name, message) == [marker |-> marker, name |-> name, message |-> message]

S_structure_checks ==
  << Check("import express from 'express'", "Required Imports", "Missing import"),
     Check("import serverless from 'serverless-http'", "Required Imports",
           "Missing import"),
     Check("import cors from 'cors'", "Required Imports", "Missing import"),
     Check("app = express()", "Express App Creation", "Express app not created"),
     Check("export default serverless(app)", "Serverless Export",
           "Missing serverless export"),
     Check("app.post('/api/blog'", "Blog Endpoint", "POST /api/blog endpoint not found"),
     Check("app.use(cors(", "CORS Configuration", "CORS middleware not configured"),
     Check("express.json(", "JSON Body Parsing", "JSON body parsing not configured") >>

S_logic_checks ==
  << Check("req.headers.authorization", "Authorization Check",
           "No authorization header check found"),
     Check("res.status(401)", "401 Response", "No 401 Unauthorized response found"),
     Check("Bearer", "Bearer Token Check", "No Bearer token validation found"),
     Check("res.status(200)", "200 Success Response", "No 200 success response found") >>

S_middleware_checks ==
  << Check("helmet(", "Security Middleware", "Helmet security middleware not found"),
     Check("compression(", "Compression Middleware", "Compression middleware not found"),
     Check("morgan(", "Logging Middleware", "Morgan logging middleware not found"),
     Check("trust proxy", "Trust Proxy", "Trust proxy setting not found"),
     Check("app.use((err", "Error Handler", "Error handling middleware not found"),
     Check("res.status(404)", "404 Handler", "404 handler not found") >>

S_health_checks ==
  << Check("app.get('/health'", "Health Endpoint", "/health endpoint not found"),
     Check("app.get('/api/health'", "API Health Endpoint",
           "/api/health endpoint not found"),
     Check("app.get('/', ", "Root Endpoint", "Root endpoint not found") >>

Markers(checks) == {checks[i].marker : i \in DOMAIN checks}

\* A handler that has every text the script looks for.
FullHandler ==
  Markers(S_structure_checks) \cup Markers(S_logic_checks)
    \cup Markers(S_middleware_checks) \cup Markers(S_health_checks)

\* The states of /app/backend/api/index.js; its content is the set of the
\* looked-for texts that occur in it.
HandlerFiles ==
  { File(FALSE, FALSE, {}), File(TRUE, FALSE, {}), File(TRUE, TRUE, {}),
    File(TRUE, TRUE, FullHandler) }
    \cup {File(TRUE, TRUE, FullHandler \ {m}) : m \in FullHandler}

\* The files a run of the script finds: /app/vercel.json, whether
\* /app/backend/vercel.json exists, the handler, and whether the user running
\* the script may search /app/backend (if not, stat() on a path below it fails
\* with EACCES and Path.exists() raises PermissionError).
NoFiles == [vercel |-> File(FALSE, FALSE, None), backend_vercel |-> FALSE,
            handler |-> File(FALSE, FALSE, {}), searchable |-> TRUE]

ServerlessFiles ==
  {[vercel |-> v, backend_vercel |-> b, handler |-> h, searchable |-> TRUE] :
     v \in VercelJsonFiles, b \in BOOLEAN, h \in HandlerFiles}
    \cup {[vercel |-> v, backend_vercel |-> FALSE, handler |-> File(TRUE, FALSE, {}),
           searchable |-> FALSE] : v \in VercelJsonFiles}

\* Lines 34-71: the result test_vercel_json_configuration logs for vercel.json.
S_config_verdict(s, file) ==
  LET config == file.content
      failed(name, text) == S_log_test(s, name, FALSE, Detail(text, NoArg))
      error == failed("Vercel Configuration", "Error reading config")
      version == PyGet(config, "version")
      builds == PyGetDefault(config, "builds", JList(<<>>))
      build == PyFirst(builds.val)
      src == PyGet(build.val, "src")
      use == PyGet(build.val, "use")
      routes == PyGetDefault(config, "routes", JList(<<>>))
      route == PyFirst(routes.val)
      dest == PyGet(route.val, "dest")
  IN IF ~file.exists THEN failed("Vercel Config Exists", "vercel.json not found")
     ELSE IF ~file.readable \/ ~version.ok THEN error
     ELSE IF version.val /= JInt(2) THEN failed("Vercel Version", "Expected version 2")
     ELSE IF ~Truthy(builds.val)
       THEN failed("Builds Config", "No builds configuration found")
     ELSE IF ~build.ok \/ ~src.ok THEN error
     ELSE IF src.val /= JStr("backend/api/index.js")
       THEN failed("Build Source", "Expected 'backend/api/index.js'")
     ELSE IF use.val /= JStr("@vercel/node")
       THEN failed("Build Runtime", "Expected '@vercel/node'")
     ELSE IF ~Truthy(routes.val)
       THEN failed("Routes Config", "No routes configuration found")
     ELSE IF ~route.ok \/ ~dest.ok THEN error
     ELSE IF dest.val /= JStr("/backend/api/index.js")
       THEN failed("Route Destination", "Expected '/backend/api/index.js'")
     ELSE S_log_test(s, "Vercel Configuration", TRUE,
                     Detail("All configuration checks passed", NoArg))

\* The first sub-check whose text is missing from the content (0: none).
S_first_missing(checks, content) ==
  LET missing == {i \in DOMAIN checks : checks[i].marker \notin content}
  IN IF missing = {} THEN 0 ELSE CHOOSE i \in missing : \A j \in missing : i <= j

\* The body shared by the four scanning functions: open and read the handler,
\* log the first sub-check that fails, or the exception, or one pass.
S_scan(s, file, checks, name, passed, error) ==
  LET k == S_first_missing(checks, file.content)
  IN IF ~file.exists \/ ~file.readable
       THEN S_log_test(s, name, FALSE, Detail(error, NoArg))
     ELSE IF k /= 0
       THEN S_log_test(s, checks[k].name, FALSE, Detail(checks[k].message, NoArg))
     ELSE S_log_test(s, name, TRUE, Detail(passed, NoArg))

\* One test function of the script: the tester after it and where control goes.
S_step(at, out, next) ==
  /\ runner = "serverless" /\ pc = at
  /\ self' = out.s
  /\ loc' = [loc EXCEPT !.exc = out.exc]
  /\ pc' = Goto(out, next)
  /\ UNCHANGED <<runner, wire, faults, exit_code>>

S_test_vercel_json_configuration ==
  S_step("s_config", Done(S_config_verdict(self, loc.fs.vercel)), "s_conflict")

S_test_no_conflicting_configs ==
  S_step("s_conflict",
         IF ~loc.fs.searchable THEN Raised(self, "PermissionError")
         ELSE IF loc.fs.backend_vercel
           THEN Done(S_log_test(self, "No Backend vercel.json", FALSE,
                                Detail("Conflicting vercel.json found in backend directory",
                                       NoArg)))
         ELSE Done(S_log_test(self, "No Conflicting Configs", TRUE,
                              Detail("No conflicting vercel.json files found", NoArg))),
         "s_exists")

S_test_serverless_handler_exists ==
  S_step("s_exists",
         IF ~loc.fs.searchable THEN Raised(self, "PermissionError")
         ELSE IF ~loc.fs.handler.exists
           THEN Done(S_log_test(self, "Handler File Exists", FALSE,
                                Detail("Serverless handler /app/backend/api/index.js not found",
                                       NoArg)))
         ELSE Done(S_log_test(self, "Handler File Exists", TRUE,
                              Detail("Serverless handler file found", NoArg))),
         "s_structure")

S_test_serverless_handler_structure ==
  S_step("s_structure",
         Done(S_scan(self, loc.fs.handler, S_structure_checks, "Handler Structure",
                     "All structure checks passed", "Error reading handler")),
         "s_logic")

S_test_blog_endpoint_logic ==
  S_step("s_logic",
         Done(S_scan(self, loc.fs.handler, S_logic_checks, "Blog Endpoint Logic",
                     "All endpoint logic checks passed", "Error analyzing endpoint")),
         "s_middleware")

S_test_express_middleware_configuration ==
  S_step("s_middleware",
         Done(S_scan(self, loc.fs.handler, S_middleware_checks, "Express Middleware",
                     "All middleware checks passed", "Error checking middleware")),
         "s_health")

S_test_health_endpoints ==
  S_step("s_health",
         Done(S_scan(self, loc.fs.handler, S_health_checks, "Health Endpoints",
                     "All health endpoints found", "Error checking endpoints")),
         "s_summary")

\* Lines 250-264 of run_all_tests: the summary and the verdict.
S_run_all_tests ==
  /\ runner = "serverless" /\ pc = "s_summary"
  /\ pc' = "returned"
  /\ loc' = [loc EXCEPT !.result = (self.tests_passed = self.tests_run)]
  /\ UNCHANGED <<runner, self, wire, faults, exit_code>>

\* main(): the return value of run_all_tests is the exit status; no handler.
S_main ==
  /\ runner = "serverless" /\ pc \in {"returned", "raised"}
  /\ exit_code' = IF pc = "returned" THEN (IF loc.result THEN 0 ELSE 1)
                  ELSE Unhandled(loc.exc)
  /\ pc' = "exited"
  /\ UNCHANGED <<runner, self, loc, wire, faults>>

(***************************************************************************)
(* vercel_deployment_validation_test.py: VercelDeploymentValidator         *)
(***************************************************************************)
\* __init__
Val_init == [tests_run |-> 0, tests_passed |-> 0, errors |-> <<>>, calls |-> 0]

\* log_test(name, success, message)
Val_log_test(s, name, success, message) ==
  IF success
    THEN [s EXCEPT !.calls = @ + 1, !.tests_run = @ + 1, !.tests_passed = @ + 1]
    ELSE [s EXCEPT !.calls = @ + 1, !.tests_run = @ + 1,
                   !.errors = Append(@, [name |-> name, message |-> message])]

\* What subprocess.run(["node", "-e", script], ...) can give: a completed
\* process with its return code and stderr, or an exception (TimeoutExpired,
\* FileNotFoundError).
NodeRun(raised, returncode, stderr) ==
  [raised |-> raised, returncode |-> returncode, stderr |-> stderr]

GoodNodeRun == NodeRun(FALSE, 0, "")

NodeStderrs ==
  {"", "Error: Cannot find module './backend/api/index.cjs'",
   "CRITICAL: 501 Not Implemented error still occurring!", "Error: Not Implemented"}

NodeRuns ==
  {NodeRun(FALSE, c, e) : c \in {0, 1, 2}, e \in NodeStderrs}
    \cup {NodeRun(TRUE, 0, "")}

\* What a function that inspects files finds: nothing wrong, an exception while
\* reading, or the first sub-check that fails (the name it is logged under).
Finding(kind, name) == [kind |-> kind, name |-> name]

Findings(names) ==
  {Finding("pass", ""), Finding("raise", "")} \cup {Finding("fail", n) : n \in names}

\* The inputs of a step: any while deviations remain, else the expected one.
Val_inputs(all, nominal) == IF faults < MaxFaults THEN all ELSE {nominal}

\* The result a file-inspecting function logs for what it finds.
Val_inspect(s, finding, name) ==
  CASE finding.kind = "pass" -> Val_log_test(s, name, TRUE, Detail("", NoArg))
    [] finding.kind = "raise" -> Val_log_test(s, name, FALSE, Detail("Error", NoArg))
    [] finding.kind = "fail" -> Val_log_test(s, finding.name, FALSE, Detail("", NoArg))

\* Lines 98-106 and 353-361: the result logged for a node run that must exit 0.
Val_node(s, run, name) ==
  IF run.raised THEN Val_log_test(s, name, FALSE, Detail("Test error", NoArg))
  ELSE IF run.returncode = 0 THEN Val_log_test(s, name, TRUE, Detail("", NoArg))
  ELSE Val_log_test(s, name, FALSE, Detail(run.stderr, NoArg))

\* Lines 255-266: the result test_blog_endpoint_fix logs for the node run.
Val_blog_verdict(s, run) ==
  IF run.raised
    THEN Val_log_test(s, "POST /api/blog Fix", FALSE, Detail("Test error", NoArg))
  ELSE IF run.returncode = 0
    THEN Val_log_test(s, "POST /api/blog Fix", TRUE,
                      Detail("Endpoint returns proper status codes (NOT 501)", NoArg))
  ELSE IF IsSubstring("501", run.stderr) \/ IsSubstring("Not Implemented", run.stderr)
    THEN Val_log_test(s, "POST /api/blog Fix", FALSE,
                      Detail("CRITICAL: 501 error still occurring!", NoArg))
  ELSE Val_log_test(s, "POST /api/blog Fix", TRUE, Detail("No 501 errors detected", NoArg))

\* One test function of the script.
Val_step(at, s1, loc1, input, nominal, next) ==
  /\ runner = "validation" /\ pc = at
  /\ self' = s1
  /\ loc' = loc1
  /\ faults' = IF input = nominal THEN faults ELSE faults + 1
  /\ pc' = next
  /\ UNCHANGED <<runner, wire, exit_code>>

Val_test_deployment_configuration ==
  \E f \in Val_inputs(Findings({"Vercel Config Build Source",
                                "Vercel Config Route Destination",
                                "Handler File Exists", "Express App Exists"}),
                      Finding("pass", "")) :
    Val_step("val_config", Val_inspect(self, f, "Deployment Configuration"), loc,
             f, Finding("pass", ""), "val_handler")

Val_test_commonjs_handler_functionality ==
  \E run \in Val_inputs(NodeRuns, GoodNodeRun) :
    Val_step("val_handler", Val_node(self, run, "CommonJS Handler"),
             [loc EXCEPT !.node = run], run, GoodNodeRun, "val_express")

Val_test_express_app_integration ==
  \E f \in Val_inputs(Findings({"Express App Export", "Express Default Export",
                                "Middleware helmet(", "Middleware corsMiddleware",
                                "Middleware compression()", "Middleware morgan(",
                                "Middleware express.json(", "Middleware apiRateLimiter",
                                "API Routes", "Health Endpoint", "API Health Endpoint"}),
                      Finding("pass", "")) :
    Val_step("val_express", Val_inspect(self, f, "Express App Integration"), loc,
             f, Finding("pass", ""), "val_blog")

Val_test_blog_endpoint_fix ==
  \E run \in Val_inputs(NodeRuns, GoodNodeRun) :
    Val_step("val_blog", Val_blog_verdict(self, run), [loc EXCEPT !.node = run],
             run, GoodNodeRun, "val_build")

Val_test_build_process_validation ==
  \E f \in Val_inputs(Findings({"Dependency express", "Dependency serverless-http",
                                "Dependency prisma", "Dependency @prisma/client",
                                "Build Command", "ES Modules Compatibility"}),
                      Finding("pass", "")) :
    Val_step("val_build", Val_inspect(self, f, "Build Process"), loc,
             f, Finding("pass", ""), "val_url")

Val_test_vercel_url_loading_fix ==
  \E run \in Val_inputs(NodeRuns, GoodNodeRun) :
    Val_step("val_url", Val_node(self, run, "Vercel URL Loading Fix"),
             [loc EXCEPT !.node = run], run, GoodNodeRun, "val_summary")

\* Lines 378-409 of run_all_tests: the summary and the verdict.
Val_run_all_tests ==
  /\ runner = "validation" /\ pc = "val_summary"
  /\ IF self.tests_run = 0
       THEN /\ pc' = "raised"
            /\ loc' = [loc EXCEPT !.exc = "ZeroDivisionError"]
       ELSE /\ pc' = "returned"
            /\ loc' = [loc EXCEPT !.result = (self.tests_passed = self.tests_run)]
  /\ UNCHANGED <<runner, self, wire, faults, exit_code>>

\* main(): the return value of run_all_tests is the exit status; no handler.
Val_main ==
  /\ runner = "validation" /\ pc \in {"returned", "raised"}
  /\ exit_code' = IF pc = "returned" THEN (IF loc.result THEN 0 ELSE 1)
                  ELSE Unhandled(loc.exc)
  /\ pc' = "exited"
  /\ UNCHANGED <<runner, self, loc, wire, faults>>

(***************************************************************************)
(* A run                                                                   *)
(***************************************************************************)
Runners ==
  {"backend", "vercel", "dashboard", "final", "blogval", "serverless", "validation"}

\* The user interrupts the run (Ctrl-C) anywhere outside the response.json()
\* call of backend_test's and vercel_deployment_test's make_request:
\* KeyboardInterrupt is no Exception, so it passes every handler below main.
KeyboardInterrupt ==
  /\ pc \notin {"returned", "raised", "exited"}
  /\ wire.run /= 2
  /\ faults < MaxFaults
  /\ faults' = faults + 1
  /\ pc' = "raised"
  /\ loc' = [loc EXCEPT !.exc = "KeyboardInterrupt"]
  /\ UNCHANGED <<runner, self, wire, exit_code>>

Start(r) ==
  CASE r = "backend" -> "health_root"
    [] r = "vercel" -> "v_health"
    [] r = "dashboard" -> "d_login"
    [] r = "final" -> "f_url"
    [] r = "blogval" -> "b_noauth"
    [] r = "serverless" -> "s_config"
    [] r = "validation" -> "val_config"

NewTester(r) ==
  CASE r = "backend" -> Backend_init
    [] r = "vercel" -> V_init
    [] r = "dashboard" -> D_init
    [] r = "final" -> F_init
    [] r = "blogval" -> B_init
    [] r = "serverless" -> S_init
    [] r = "validation" -> Val_init

\* The locals of the test functions before any of them has run.
NoLocals ==
  [success |-> FALSE, response |-> None, status |-> 0, property_id |-> None,
   created_property_id |-> None, exc |-> "none", result |-> FALSE,
   primary_success |-> FALSE, config_success |-> FALSE, i |-> 1,
   token |-> None, all_passed |-> TRUE, fs |-> NoFiles, node |-> GoodNodeRun,
   method |-> ""]

\* The files a run of the script may find on the machine it runs on.
FilesOf(r) == IF r = "serverless" THEN ServerlessFiles ELSE {NoFiles}

\* What is kept of a first run for the comparison with a second one.
NoFirst ==
  [results |-> <<>>, tests_run |-> 0, tests_passed |-> 0, exit_code |-> -1,
   log |-> <<>>]

\* The wire before any request: run is 0 for a single run, 1 and 2 for the
\* first and second of two runs against the same server.
NoTraffic(run) ==
  [sent |-> 0, direct |-> 0, log |-> <<>>, req |-> NoRequest, resp |-> NoResponse,
   ret |-> NoReturn, run |-> run, answers |-> <<>>, first |-> NoFirst]

Init ==
  /\ runner \in Runners
  /\ pc = Start(runner)
  /\ self = NewTester(runner)
  /\ loc \in {[NoLocals EXCEPT !.fs = f] : f \in FilesOf(runner)}
  /\ wire = NoTraffic(0)
  /\ faults = 0
  /\ exit_code = -1

Next ==
  \/ KeyboardInterrupt
  \/ test_health_endpoints
  \/ test_swagger_docs
  \/ test_authentication
  \/ test_properties_endpoints
  \/ test_other_endpoints
  \/ test_error_handling
  \/ test_cors_configuration
  \/ run_all_tests
  \/ main
  \/ V_test_critical_endpoints
  \/ V_test_authentication_flow
  \/ V_test_other_endpoints
  \/ V_test_express_app_middleware
  \/ V_run_all_tests
  \/ V_main
  \/ D_test_authentication_flow
  \/ D_test_dashboard_data_endpoints
  \/ D_test_cors_and_frontend_integration
  \/ D_run_dashboard_tests
  \/ D_main
  \/ F_test_primary_deployment_fix
  \/ F_test_serverless_configuration
  \/ F_test_working_endpoints
  \/ F_test_authentication_flow
  \/ F_test_known_issues
  \/ F_run_comprehensive_test
  \/ F_main
  \/ B_test_blog_endpoint_without_auth
  \/ B_test_blog_endpoint_with_auth
  \/ B_test_other_http_methods
  \/ B_run_validation
  \/ B_main
  \/ S_test_vercel_json_configuration
  \/ S_test_no_conflicting_configs
  \/ S_test_serverless_handler_exists
  \/ S_test_serverless_handler_structure
  \/ S_test_blog_endpoint_logic
  \/ S_test_express_middleware_configuration
  \/ S_test_health_endpoints
  \/ S_run_all_tests
  \/ S_main
  \/ Val_test_deployment_configuration
  \/ Val_test_commonjs_handler_functionality
  \/ Val_test_express_app_integration
  \/ Val_test_blog_endpoint_fix
  \/ Val_test_build_process_validation
  \/ Val_test_vercel_url_loading_fix
  \/ Val_run_all_tests
  \/ Val_main

Spec == Init /\ [][Next]_vars

(***************************************************************************)
(* Two runs of a script against the same server                            *)
(***************************************************************************)
\* The (check name, pass/fail) pairs of a result list.
Verdicts(results) ==
  [i \in DOMAIN results |-> [name |-> results[i].name,
                              passed |-> Truthy(results[i].success)]]

\* The script is started again with the counters of the first run kept.
Rerun_KeepCounters ==
  /\ runner \in {"backend", "vercel"}
  /\ wire.run = 1 /\ pc = "exited" /\ loc.exc /= "KeyboardInterrupt"
  /\ wire' = [NoTraffic(2) EXCEPT
               !.answers = wire.answers,
               !.first = [results |-> Verdicts(self.test_results),
                          tests_run |-> self.tests_run,
                          tests_passed |-> self.tests_passed,
                          exit_code |-> exit_code, log |-> wire.log]]
  /\ self' = [NewTester(runner) EXCEPT !.tests_run = self.tests_run,
                                       !.tests_passed = self.tests_passed]
  /\ pc' = Start(runner)
  /\ loc' = NoLocals
  /\ faults' = 0
  /\ exit_code' = -1
  /\ UNCHANGED runner

\* The script is started again after it has exited: a new process, a new
\* tester object, and the server answering each request as it did before.
Rerun ==
  /\ runner \in {"backend", "vercel"}
  /\ wire.run = 1 /\ pc = "exited" /\ loc.exc /= "KeyboardInterrupt"
  /\ wire' = [NoTraffic(2) EXCEPT
               !.answers = wire.answers,
               !.first = [results |-> Verdicts(self.test_results),
                          tests_run |-> self.tests_run,
                          tests_passed |-> self.tests_passed,
                          exit_code |-> exit_code, log |-> wire.log]]
  /\ self' = NewTester(runner)
  /\ pc' = Start(runner)
  /\ loc' = NoLocals
  /\ faults' = 0
  /\ exit_code' = -1
  /\ UNCHANGED runner

InitTwice ==
  /\ runner \in Runners
  /\ pc = Start(runner)
  /\ self = NewTester(runner)
  /\ loc \in {[NoLocals EXCEPT !.fs = f] : f \in FilesOf(runner)}
  /\ wire = NoTraffic(1)
  /\ faults = 0
  /\ exit_code = -1

NextTwice == Next \/ Rerun

SpecTwice == InitTwice /\ [][NextTwice]_vars

(***************************************************************************)
(* One call of a request helper, then one call of log_test, on any tester  *)
(***************************************************************************)
\* The runners that send their checks through a request helper.
HelperRunners == {"backend", "vercel", "dashboard"}

\* The methods a caller may pass: the four the helpers name, and others.
HelperMethods == Methods \cup {"PATCH", "get"}

\* The outcomes of the HTTP exchange of the call: a response with the status
\* asked for or another, a body that is not JSON or is empty, no response.
HelperResponses ==
  { Good(200), Good(401), Http(200, FALSE, None, "<html>"), Http(200, FALSE, None, ""),
    Failure("Connection refused"), Failure("Read timed out") }

\* The testers the call is made on: a new one, and one that has logged in.
HelperTesters(r) ==
  CASE r = "backend" ->
         {Backend_init,
          [log_test(Backend_init, "Admin Login", JBool(TRUE), NoDetail)
             EXCEPT !.token = JStr("tok"), !.refresh_token = JStr("ref")]}
    [] r = "vercel" ->
         {V_init,
          [V_log_test(V_init, "POST /api/auth/login", JBool(TRUE), NoDetail,
                      JInt(200), JInt(200)) EXCEPT !.token = JStr("tok")]}
    [] r = "dashboard" ->
         {D_init,
          [D_log_test(D_init, "Admin Login", JBool(TRUE), NoDetail)
             EXCEPT !.token = JStr("tok")]}

\* What the helper of the runner returns for the call.
HelperReturn(method, expected_status, use_auth, r) ==
  CASE runner = "backend" ->
         make_request(self, method, Ep("health"), expected_status, use_auth, r)
    [] runner = "vercel" ->
         V_make_request(self, method, Ep("health"), expected_status, use_auth, r)
    [] runner = "dashboard" -> D_make_request(self, method, Ep("health"), use_auth, r)

\* The wire after the call; dashboard_integration_test sends GET and POST only.
HelperWire(method, expected_status, use_auth, r, ret) ==
  IF runner = "dashboard"
    THEN Sent(IF method \in {"GET", "POST"}
                THEN D_Request(self, method, Ep("health"), use_auth)
                ELSE [D_Request(self, method, Ep("health"), use_auth)
                        EXCEPT !.method = "none"],
              r, ret)
    ELSE Sent(Request(self, method, Ep("health"), expected_status, use_auth), r, ret)

\* CallHelper with the helper counting the request as a check run.
CallHelper_CountsRequest ==
  /\ runner \in HelperRunners /\ pc = "call"
  /\ \E method \in HelperMethods, expected_status \in {200, 401},
        use_auth \in BOOLEAN, r \in HelperResponses :
       LET ret == HelperReturn(method, expected_status, use_auth, r)
       IN /\ wire' = HelperWire(method, expected_status, use_auth, r, ret)
          /\ loc' = [loc EXCEPT !.method = method, !.response = ret.data]
  /\ self' = [self EXCEPT !.tests_run = @ + 1]
  /\ pc' = "log"
  /\ UNCHANGED <<runner, faults, exit_code>>

\* make_request(method, endpoint, data, expected_status, use_auth): the helper
\* reads self.token, self.api_base and assigns no attribute of self.
CallHelper ==
  /\ runner \in HelperRunners /\ pc = "call"
  /\ \E method \in HelperMethods, expected_status \in {200, 401},
        use_auth \in BOOLEAN, r \in HelperResponses :
       LET ret == HelperReturn(method, expected_status, use_auth, r)
       IN /\ wire' = HelperWire(method, expected_status, use_auth, r, ret)
          /\ loc' = [loc EXCEPT !.method = method, !.response = ret.data]
  /\ pc' = "log"
  /\ UNCHANGED <<runner, self, faults, exit_code>>

\* log_test(name, success, ...) called once after the helper has returned.
CallLogTest ==
  /\ runner \in HelperRunners /\ pc = "log"
  /\ \E success \in BOOLEAN :
       self' = CASE runner = "backend" -> log_test(self, "Check", JBool(success), NoDetail)
                 [] runner = "vercel" ->
                      V_log_test(self, "Check", JBool(success), NoDetail, JInt(200),
                                 JInt(wire.resp.status))
                 [] runner = "dashboard" ->
                      D_log_test(self, "Check", JBool(success), NoDetail)
  /\ pc' = "logged"
  /\ UNCHANGED <<runner, loc, wire, faults, exit_code>>

InitHelper ==
  /\ runner \in HelperRunners
  /\ pc = "call"
  /\ self \in HelperTesters(runner)
  /\ loc = NoLocals
  /\ wire = NoTraffic(0)
  /\ faults = 0
  /\ exit_code = -1

NextHelper == CallHelper \/ CallLogTest

SpecHelper == InitHelper /\ [][NextHelper]_vars


(***************************************************************************)
(* Properties                                                              *)
(***************************************************************************)
\* The result recorded last by a runner that keeps test_results.
LastResult == self.test_results[Len(self.test_results)]

\* The runners whose requests go through a make_request(..., expected_status).
ExpectingRunners == {"backend", "vercel"}

\* C1: whenever make_request got an HTTP response, the success it returned is
\* true exactly if the status equals expected_status; so the invalid-login
\* check (expected 401) is recorded passed only if the server answered 401.
C1_SuccessIffExpectedStatus ==
  /\ (runner \in ExpectingRunners /\ wire.req.via = "make_request"
        /\ wire.resp.kind = "http")
       => (wire.ret.success <=> wire.resp.status = wire.req.expected)
  /\ (runner = "backend" /\ pc = "cors")
       => /\ LastResult.name = "Invalid Login Handling"
          /\ IsTrue(LastResult.success)
               <=> (wire.resp.kind = "http" /\ wire.resp.status = 401)

\* C1 witness: the invalid login was answered 200 with an error payload and
\* the check was recorded failed.
C1_Witness ==
  /\ runner = "backend" /\ pc = "cors"
  /\ wire.req.url = Ep("auth/login") /\ wire.req.expected = 401
  /\ wire.resp = Http(200, TRUE, JDict([success |-> JBool(FALSE), error |-> JStr("bad")]), "")
  /\ ~wire.ret.success
  /\ LastResult.success = JBool(FALSE)

\* C2 as stated: tests_run equals the number of HTTP requests issued through
\* the request helper so far.
C2_RunEqualsHelperRequests ==
  runner \in HelperRunners => self.tests_run = wire.sent

\* C2 amended: tests_run equals the number of log_test / log_result calls made
\* so far, whatever the number of requests.
C2_RunEqualsLoggedResults == self.tests_run = self.calls

\* C2 witness: at the summary of backend_test one more result than helper
\* requests has been counted (the CORS check logs without the helper).
C2_Witness ==
  /\ runner = "backend" /\ pc = "summary"
  /\ self.calls > 0
  /\ self.tests_run = self.calls
  /\ self.tests_run = wire.sent + 1

\* C3: the counters start at 0, 0 <= tests_passed <= tests_run always, neither
\* ever decreases, and tests_passed grows only in a step where tests_run grows.
C3_CountersMonotone ==
  /\ self.tests_run = 0 /\ self.tests_passed = 0
  /\ [](0 <= self.tests_passed /\ self.tests_passed <= self.tests_run)
  /\ [][/\ self'.tests_run >= self.tests_run
        /\ self'.tests_passed >= self.tests_passed
        /\ self'.tests_passed > self.tests_passed
             => self'.tests_run > self.tests_run]_vars

\* C3 witness: a run with both passed and failed results recorded.
C3_Witness ==
  /\ runner \in {"backend", "final"}
  /\ 0 < self.tests_passed /\ self.tests_passed < self.tests_run

\* C4 as stated: when a run ends without an exception, the exit code is 0
\* exactly if every recorded check passed, and 1 otherwise.
C4_ExitZeroIffAllPassed ==
  (pc = "exited" /\ loc.exc = "none")
    => /\ exit_code \in {0, 1}
       /\ exit_code = 0 <=> self.tests_passed = self.tests_run

\* C4 amended: final_deployment_test_report exits 0 exactly if its two critical
\* suites succeeded; every other script exits 0 exactly if its summary was
\* reached with tests_passed = tests_run, and 1 otherwise (a failed check or
\* an error; a user interrupt aside).
C4_ExitCode ==
  (pc = "exited" /\ loc.exc /= "KeyboardInterrupt") =>
    /\ exit_code \in {0, 1}
    /\ IF runner = "final"
         THEN exit_code = 0 <=> (loc.primary_success /\ loc.config_success)
         ELSE exit_code = 0
                <=> (loc.exc = "none" /\ self.tests_passed = self.tests_run)

\* C4 witness: the report exits 0 although a recorded check failed.
C4_Witness ==
  /\ runner = "final" /\ pc = "exited" /\ exit_code = 0
  /\ self.tests_passed < self.tests_run


\* Whether a details value carries the text msg.
HoldsMessage(details, msg) ==
  \/ details.text = msg
  \/ details.arg = JStr(msg)
  \/ details.arg = JDict([error |-> JStr(msg)])

\* C5 as stated: after a check of backend_test whose request failed at
\* transport level, the check is recorded failed with the exception message
\* in its details, and nothing was raised.
C5_TransportFailureDetails ==
  (runner = "backend" /\ wire.req.via = "make_request" /\ wire.resp.kind = "error")
    => /\ pc /= "raised"
       /\ Len(self.test_results) > 0
       /\ ~Truthy(LastResult.success)
       /\ HoldsMessage(LastResult.details, wire.resp.text)

\* C6 as stated: whatever the server answers, and the user not interrupting,
\* no exception escapes run_all_tests of backend_test.
C6_NoExceptionEscapes ==
  (runner = "backend" /\ loc.exc /= "KeyboardInterrupt")
    => (pc /= "raised" /\ loc.exc = "none")

\* The position in the request log of the login request (0 if not sent yet).
LoginSent ==
  LET at == {i \in DOMAIN wire.log :
               /\ wire.log[i].via = "make_request"
               /\ wire.log[i].url = Ep("auth/login")
               /\ wire.log[i].method = "POST"
               /\ wire.log[i].expected \in {0, 200}}
  IN IF at = {} THEN 0 ELSE CHOOSE i \in at : \A j \in at : i <= j

\* C7 as stated: once the login step has left no token, nothing raises out of
\* the run (the user not interrupting it), and backend_test issues no request
\* that needs authentication.
C7_NoTokenRunContinues ==
  (runner \in ExpectingRunners /\ LoginSent > 0 /\ ~Truthy(self.token)
     /\ loc.exc /= "KeyboardInterrupt")
    => /\ pc /= "raised"
       /\ runner = "backend"
            => \A i \in DOMAIN wire.log : i > LoginSent => ~wire.log[i].use_auth

\* The state right after the login step: the login request is the last one sent.
LoginJustDone ==
  /\ runner \in HelperRunners
  /\ LoginSent > 0 /\ LoginSent = Len(wire.log)

\* Whether the login response has status 200 and a JSON body with data.token.
HasDataToken(r) ==
  /\ r.kind = "http" /\ r.status = 200 /\ r.valid
  /\ r.val.t = "dict" /\ "data" \in DOMAIN r.val.m
  /\ r.val.m.data.t = "dict" /\ "token" \in DOMAIN r.val.m.data.m

\* Whether the login check stands recorded as failed.
LoginRecordedFailed ==
  IF runner = "dashboard"
    THEN self.tests_run = 1 /\ self.tests_passed = 0
    ELSE /\ Len(self.test_results) > 0
         /\ LastResult.name \in {"Admin Login", "POST /api/auth/login"}
         /\ ~Truthy(LastResult.success)

\* C8 as stated: after the login step the stored token is data.token of a 200
\* response; in every other case no token is stored and the login check is
\* recorded failed.
C8_TokenOnlyFromLogin ==
  LoginJustDone =>
    IF HasDataToken(wire.resp)
      THEN self.token = wire.resp.val.m.data.m.token
      ELSE self.token = None /\ LoginRecordedFailed

\* C9: every request make_request sends carries Content-Type:
\* application/json, and Authorization: Bearer <token> exactly if use_auth is
\* set and a token is stored when it is sent; otherwise no Authorization.
C9_RequestHeaders ==
  [][(wire'.sent > wire.sent /\ runner \in HelperRunners)
       => /\ wire'.req.via = "make_request"
          /\ wire'.req.content_type = JStr("application/json")
          /\ wire'.req.authorization =
               IF wire'.req.use_auth /\ Truthy(self.token)
                 THEN Bearer(self.token) ELSE NoHeader]_vars

\* C9 witness: backend_test sent a request with the bearer token, and later,
\* still holding the token, one with use_auth false and no Authorization.
C9_Witness ==
  /\ runner = "backend" /\ self.token = JStr("tok")
  /\ \E i, j \in DOMAIN wire.log :
       /\ i < j
       /\ wire.log[i].use_auth /\ wire.log[i].authorization = Bearer(JStr("tok"))
       /\ ~wire.log[j].use_auth /\ wire.log[j].authorization = NoHeader
       /\ wire.log[j].content_type = JStr("application/json")

\* C10 as stated: a helper that got a response whose body is not JSON returns
\* the raw text plus status code as the body, and reports the real status.
C10_InvalidJsonFallback ==
  (runner \in HelperRunners /\ wire.req.via = "make_request"
     /\ wire.resp.kind = "http" /\ ~wire.resp.valid)
    => /\ wire.ret.data = JDict([text |-> JStr(wire.resp.text),
                                 status_code |-> JInt(wire.resp.status)])
       /\ runner /= "backend" => wire.ret.status = wire.resp.status


\* The results a step adds that are failures.
FailuresAdded ==
  (self'.tests_run - self.tests_run) - (self'.tests_passed - self.tests_passed)

\* C11: a step sends at most one HTTP request; a step that sent one never
\* leaves control at the same check (nothing is issued again), and a step that
\* recorded a failure hands control to a later check, not out of the run.
C11_NoRetry ==
  [][/\ Len(wire'.log) <= Len(wire.log) + 1
     /\ wire'.sent + wire'.direct = Len(wire'.log)
     /\ Len(wire'.log) > Len(wire.log) => (pc' /= pc \/ loc'.i /= loc.i)
     /\ FailuresAdded > 0
          => /\ pc' /= "raised"
             /\ pc' /= pc \/ loc'.i /= loc.i]_vars

\* C11 witness: the first check of backend_test failed on a transport error,
\* and the second request sent is the next check, not the first again.
C11_Witness ==
  /\ runner = "backend" /\ wire.sent = 2 /\ Len(self.test_results) = 2
  /\ self.test_results[1].success = JBool(FALSE)
  /\ wire.log[1].url = Abs("/health") /\ wire.log[2].url = Ep("health")


\* The runners that keep a test_results list.
ResultRunners == {"backend", "vercel"}

\* Whether sequence a is a prefix of sequence b.
IsPrefix(a, b) ==
  /\ Len(a) <= Len(b)
  /\ \A i \in 1..Len(a) : a[i] = b[i]

\* A step that keeps the recorded results as a prefix and adds one entry per
\* log_test call it makes.
ResultsExtended ==
  /\ IsPrefix(self.test_results, self'.test_results)
  /\ Len(self'.test_results) - Len(self.test_results) = self'.calls - self.calls

\* C12: test_results holds one entry per log_test call, and every step leaves
\* the entries recorded before it where and as they were, adding new ones
\* only at the end.
C12_ResultsAppendOnly ==
  /\ [](runner \in ResultRunners => Len(self.test_results) = self.calls)
  /\ [][(runner \in ResultRunners) => ResultsExtended]_vars

\* C12 witness: vercel_deployment_test has recorded a failed health check
\* and, after it, a second result.
C12_Witness ==
  /\ runner = "vercel" /\ Len(self.test_results) = 2
  /\ self.test_results[1].name = "GET /api/health"
  /\ self.test_results[1].success = JBool(FALSE)
  /\ self.test_results[2].name /= "GET /api/health"


\* Whether the user's interrupt has been delivered to the run: it ended a step
\* from outside, or it arrived in the response.json() of the last request.
Interrupted == loc.exc = "KeyboardInterrupt" \/ wire.resp.val = SigInt

\* C13 as stated: once the interrupt has been delivered the run is stopped,
\* and the script ends with a nonzero exit code.
C13_InterruptStopsRun ==
  Interrupted => /\ pc \in {"raised", "exited"}
                 /\ pc = "exited" => exit_code \notin {-1, 0}


\* C14: in vercel_deployment_test the unauthenticated POST /api/blog check is
\* recorded passed exactly if the server answered 401; an answer of 501 is
\* recorded failed with the detail that calls it critical, and any other
\* status or a transport failure is recorded failed.
C14_BlogNoAuthVerdict ==
  (runner = "vercel" /\ pc = "v_blog_get")
    => /\ LastResult.name = "POST /api/blog (No Auth)"
       /\ wire.req.method = "POST" /\ wire.req.url = Ep("blog")
       /\ LastResult.success \in {JBool(TRUE), JBool(FALSE)}
       /\ IsTrue(LastResult.success)
            <=> (wire.resp.kind = "http" /\ wire.resp.status = 401)
       /\ (wire.resp.kind = "http" /\ wire.resp.status = 501)
            => LastResult.details
                 = Detail("CRITICAL: Still returning 501 - Vercel fix failed!", NoArg)

\* C14 witness: the server answered 501 and the check stands failed as critical.
C14_Witness ==
  /\ runner = "vercel" /\ pc = "v_blog_get"
  /\ wire.resp.kind = "http" /\ wire.resp.status = 501
  /\ LastResult.success = JBool(FALSE)
  /\ LastResult.details.text = "CRITICAL: Still returning 501 - Vercel fix failed!"


CreateChecks == {"Create Property (Protected)", "POST /api/blog (With Auth)"}

\* Whether the run is over, with no exception and no interrupt having ended it.
RunCompleted == pc \in {"returned", "exited"} /\ loc.exc = "none"

\* C16 as stated: when a run has completed in which a creating check passed,
\* a DELETE request has been sent in it.
C16_CreatedResourcesDeleted ==
  (runner \in ResultRunners /\ RunCompleted)
    => \A i \in DOMAIN self.test_results :
         (self.test_results[i].name \in CreateChecks
            /\ Truthy(self.test_results[i].success))
           => \E j \in DOMAIN wire.log : wire.log[j].method = "DELETE"


\* C17 as stated: in blog_endpoint_validation_test, when the last GET of
\* test_other_http_methods got no HTTP response, the 'Other HTTP Methods'
\* check stands recorded as failed.
C17_TransportFailureFailsCheck ==
  (runner = "blogval" /\ pc = "b_summary" /\ wire.resp.kind = "error")
    => /\ ~loc.all_passed
       /\ \E i \in DOMAIN self.errors : self.errors[i].name = "Other HTTP Methods"


\* The answer is a 200 whose JSON body is an object with success == true and
\* message == "API is healthy".
HealthyAnswer(r) ==
  /\ r.kind = "http" /\ r.status = 200 /\ r.valid
  /\ r.val.t = "dict"
  /\ "success" \in DOMAIN r.val.m /\ r.val.m.success = JBool(TRUE)
  /\ "message" \in DOMAIN r.val.m /\ r.val.m.message = JStr("API is healthy")

\* C18 as stated: in vercel_deployment_test, once GET /api/health has been
\* answered, a 'GET /api/health' result is recorded, and it is a pass exactly
\* when the answer is a 200 with success == true and message == "API is
\* healthy"; a 200 with any other body is recorded as failed.
C18_HealthVerdict ==
  (runner = "vercel" /\ Len(wire.log) = 1 /\ wire.resp.kind = "http")
    => /\ wire.req.url = Ep("health")
       /\ Len(self.test_results) = 1
       /\ LastResult.name = "GET /api/health"
       /\ IsTrue(LastResult.success) <=> HealthyAnswer(wire.resp)


\* The requests of the run with this method on one property (properties/{id}).
PropertyWrites(method) ==
  {i \in DOMAIN wire.log :
     wire.log[i].method = method /\ wire.log[i].url.path = "properties/"}

\* The 'Create Property (Protected)' check stands recorded as passed.
CreatePassed ==
  \E i \in DOMAIN self.test_results :
    /\ self.test_results[i].name = "Create Property (Protected)"
    /\ IsTrue(self.test_results[i].success)

\* The answer is a JSON object whose data is an object with an id.
CarriesDataId(r) ==
  /\ r.kind = "http" /\ r.valid /\ r.val.t = "dict"
  /\ "data" \in DOMAIN r.val.m /\ r.val.m.data.t = "dict"
  /\ "id" \in DOMAIN r.val.m.data.m

C20_NoAuthPassesOnly401 ==
  (runner = "blogval" /\ Len(wire.log) = 1 /\ self.tests_run = 1)
    => /\ wire.req.method = "POST" /\ wire.req.url = Ep("blog")
       /\ (self.tests_passed = 1)
            <=> (wire.resp.kind = "http" /\ wire.resp.status = 401)
       /\ (self.tests_passed = 0)
            <=> (\E i \in DOMAIN self.errors :
                   self.errors[i].name = "POST /api/blog No Auth")


\* The recorded results of the runner that passed, and those that failed.
PassedResults == {i \in DOMAIN self.test_results : Truthy(self.test_results[i].success)}

FailedResults == {i \in DOMAIN self.test_results : ~Truthy(self.test_results[i].success)}

\* The number of failed checks the summary of the runner prints.
FailuresListed ==
  CASE runner \in ResultRunners -> Cardinality(FailedResults)
    [] runner \in {"blogval", "serverless", "validation"} -> Len(self.errors)
    [] runner = "final" -> Len(self.critical_issues) + Len(self.minor_issues)
    [] OTHER -> self.tests_run - self.tests_passed

\* The counting part of C21: results recorded = tests_run, results passed =
\* tests_passed, failures recorded = tests_run - tests_passed.
CountersAgree ==
  /\ self.tests_run = self.calls
  /\ self.tests_passed <= self.tests_run
  /\ runner \in ResultRunners
       => /\ Len(self.test_results) = self.tests_run
          /\ Cardinality(PassedResults) = self.tests_passed
  /\ runner = "final" => Len(self.successes) = self.tests_passed
  /\ FailuresListed = self.tests_run - self.tests_passed

C22_SingleOnlyAfterListPassed ==
  (runner = "backend" /\ PropertyWrites("GET") /= {})
    => \E i \in DOMAIN self.test_results :
         /\ self.test_results[i].name = "List Properties (Public)"
         /\ IsTrue(self.test_results[i].success)


\* The runners that cache a token in the tester, and their login steps.
TokenRunners == {"backend", "vercel", "dashboard"}

LoginSteps == {"auth_login", "v_login", "d_login"}

\* A step changes the cached token only if it is the login step and the
\* token was unset.
TokenWrittenByLogin ==
  (self'.token /= self.token) => (pc \in LoginSteps /\ self.token = None)

\* The requests sent so far that carry an Authorization header.
Authenticated == {i \in DOMAIN wire.log : wire.log[i].authorization /= NoHeader}

\* C23: in the runners that cache a token, the token is None until the login
\* request has been sent, only the login step changes it and only from None,
\* and every request sent with an Authorization header carries the cached
\* token.
C23_TokenWrittenOnce ==
  /\ [](runner \in TokenRunners
          => /\ LoginSent = 0 => self.token = None
             /\ \A i \in Authenticated :
                  /\ i > LoginSent
                  /\ wire.log[i].authorization = Bearer(self.token))
  /\ [][(runner \in TokenRunners) => TokenWrittenByLogin]_vars

\* C23 witness: backend_test holds the token of the login after the refresh
\* check and after an authenticated check that failed, and has sent it again.
C23_Witness ==
  /\ runner = "backend" /\ self.token = JStr("tok")
  /\ \E i \in DOMAIN wire.log :
       /\ wire.log[i].url = Ep("auth/refresh")
       /\ \E j \in Authenticated : i < j
  /\ \E i \in DOMAIN self.test_results :
       /\ self.test_results[i].name = "List Users (Protected)"
       /\ ~IsTrue(self.test_results[i].success)
  /\ wire.req.authorization = Bearer(JStr("tok"))
  /\ wire.req.url = Ep("dashboard/stats")


\* Whether the 'Admin Login' check stands recorded as passed right after the
\* login step.
AdminLoginPassed ==
  /\ runner \in {"backend", "dashboard"} /\ LoginJustDone
  /\ IF runner = "dashboard"
       THEN self.tests_run = 1 /\ self.tests_passed = 1
       ELSE /\ Len(self.test_results) > 0
            /\ LastResult.name = "Admin Login"
            /\ Truthy(LastResult.success)

\* C24 as stated: when 'Admin Login' is recorded as passed the runner holds a
\* set, non-empty token.
C24_PassedLoginHoldsToken ==
  AdminLoginPassed => (self.token.t = "str" /\ self.token.s /= "")


\* The steps of test_primary_deployment_fix and test_serverless_configuration,
\* and the points of the report after both have returned.
FinalCriticalSteps == {"f_url", "f_api", "f_handler", "f_config"}

FinalAfterCritical == {"f_endpoints", "f_login", "f_me", "f_known", "f_summary", "returned"}

\* A step of the report records a critical failure only inside the two
\* critical suites.
CriticalOnlyInCriticalSuites ==
  (self'.critical_issues /= self.critical_issues) => pc \in FinalCriticalSteps

\* C25: in final_deployment_test_report, (a) a run that was not interrupted
\* exits 0 exactly when critical_issues is empty, and with 1 otherwise;
\* (b) once the two critical suites have returned, both returned True exactly
\* when critical_issues is empty; (c) no step outside the two critical suites
\* adds to critical_issues.
C25_ExitZeroIffNoCritical ==
  /\ [](runner = "final"
          => /\ (pc = "exited" /\ loc.exc /= "KeyboardInterrupt")
                  => /\ exit_code \in {0, 1}
                     /\ exit_code = 0 <=> self.critical_issues = <<>>
             /\ pc \in FinalAfterCritical
                  => ((loc.primary_success /\ loc.config_success)
                        <=> self.critical_issues = <<>>))
  /\ [][(runner = "final") => CriticalOnlyInCriticalSuites]_vars

\* C25 witness: the report exited 0 with minor issues recorded and no critical
\* one.
C25_Witness ==
  /\ runner = "final" /\ pc = "exited" /\ exit_code = 0
  /\ self.critical_issues = <<>> /\ Len(self.minor_issues) > 0


\* The points at which a script computes tests_passed / tests_run.
SummarySteps ==
  {"summary", "v_summary", "d_summary", "f_summary", "b_summary", "val_summary"}

S_done ==
  CASE pc = "s_config" -> 0
    [] pc = "s_conflict" -> 1
    [] pc = "s_exists" -> 2
    [] pc = "s_structure" -> 3
    [] pc = "s_logic" -> 4
    [] pc = "s_middleware" -> 5
    [] pc = "s_health" -> 6
    [] OTHER -> 7

\* Whether every sub-check of the k-th test function holds of the files.
S_holds(k) ==
  LET scanned(checks) ==
        /\ loc.fs.handler.exists /\ loc.fs.handler.readable
        /\ Markers(checks) \subseteq loc.fs.handler.content
  IN CASE k = 1 -> loc.fs.vercel = File(TRUE, TRUE, VercelJson(JInt(2), GoodBuilds, GoodRoutes))
       [] k = 2 -> ~loc.fs.backend_vercel
       [] k = 3 -> loc.fs.handler.exists
       [] k = 4 -> scanned(S_structure_checks)
       [] k = 5 -> scanned(S_logic_checks)
       [] k = 6 -> scanned(S_middleware_checks)
       [] k = 7 -> scanned(S_health_checks)

\* C27 as stated: in vercel_serverless_test, at every point of a run that was
\* not interrupted, tests_run is the number of test functions that have returned
\* (7 at the summary), tests_passed is the number of them whose sub-checks all
\* hold of the inspected files, errors has one entry for each of the others,
\* and no exception leaves a test function.
C27_OneResultPerFunction ==
  (runner = "serverless" /\ loc.exc /= "KeyboardInterrupt")
    => /\ loc.exc = "none" /\ pc /= "raised"
       /\ self.tests_run = S_done /\ self.calls = S_done
       /\ self.tests_passed = Cardinality({k \in 1..S_done : S_holds(k)})
       /\ Len(self.errors) = Cardinality({k \in 1..S_done : ~S_holds(k)})


\* C28 as stated: in vercel_deployment_validation_test, once
\* test_blog_endpoint_fix has returned, no failure is recorded for
\* 'POST /api/blog Fix' exactly when the node subprocess completed with
\* return code 0.
C28_BlogFixPassesOnlyOnExitZero ==
  (runner = "validation" /\ pc = "val_build")
    => ((\A i \in DOMAIN self.errors : self.errors[i].name /= "POST /api/blog Fix")
          <=> (~loc.node.raised /\ loc.node.returncode = 0))


\* What log_test may change of a backend_test tester: one result appended,
\* tests_run one more, tests_passed one more or the same.
OneResultLogged ==
  /\ self'.tests_run = self.tests_run + 1
  /\ self'.tests_passed \in {self.tests_passed, self.tests_passed + 1}
  /\ Len(self'.test_results) = Len(self.test_results) + 1
  /\ IsPrefix(self.test_results, self'.test_results)

\* C29: on a backend_test tester, the step of make_request leaves tests_run,
\* tests_passed, test_results, token and refresh_token as they were, whatever
\* the method and the outcome of the exchange; the step of log_test changes
\* the counters and the result list and leaves token and refresh_token as
\* they were.
C29_HelperFrame ==
  [][(runner = "backend")
       => /\ (pc = "call") => (self' = self)
          /\ (pc = "log") => /\ OneResultLogged
                             /\ self'.token = self.token
                             /\ self'.refresh_token = self.refresh_token]_vars

\* C29 witness: make_request has returned from a transport failure on a tester
\* that holds a token and one result, and the tester is as it was.
C29_Witness ==
  /\ runner = "backend" /\ pc = "log"
  /\ wire.resp.kind = "error" /\ wire.req.authorization = Bearer(JStr("tok"))
  /\ self.token = JStr("tok") /\ self.refresh_token = JStr("ref")
  /\ self.tests_run = 1 /\ Len(self.test_results) = 1

\* C30: after a request helper was called with a method outside GET, POST,
\* PUT, DELETE, no request has gone out, nothing was raised, the helper
\* returned a failure (success false, or status 0) with an error body, and the
\* tester is one of those the call can be made on, unchanged.
C30_UnsupportedMethod ==
  (pc = "log" /\ loc.method \notin Methods)
    => /\ wire.sent = 0 /\ wire.log = <<>> /\ wire.resp = NoResponse
       /\ loc.exc = "none"
       /\ IF runner = "dashboard" THEN wire.ret.status = 0 ELSE ~wire.ret.success
       /\ runner = "vercel" => wire.ret.status = 0
       /\ wire.ret.data.t = "dict" /\ "error" \in DOMAIN wire.ret.data.m
       /\ self \in HelperTesters(runner)

\* C30 witness: the helper of each family has returned from a PATCH call.
C30_Witness ==
  /\ pc = "log" /\ loc.method = "PATCH" /\ runner = "dashboard"
  /\ wire.sent = 0 /\ wire.ret.status = 0
  /\ self.token = JStr("tok")

====
